---- MODULE Spec2Model ----
(***************************************************************************)
(* voltcompare: the tariff costing engine (calculateDetailedCost and       *)
(* compareTariffs).                                                        *)
(*                                                                         *)
(* The repository carries two texts of the calculator:                     *)
(*   src/services/energyCalculator.ts  three tiers (1.28x, 1.45x), the     *)
(*                                     period's rate only;                 *)
(*   src/unnamed/part_001              two tiers (1.24x), getEffectiveRate *)
(*                                     (summerRate in June..September).    *)
(* The variable build says which text is bundled; both are modelled.       *)
(*                                                                         *)
(* Units.  Reading values are whole kWh.  Rates are held in 1/10000 $ per  *)
(* kWh (0.38 $/kWh is 3800) so that the tier factors 1.28, 1.45 and 1.24   *)
(* are exact; money is held in 1/1000 $ (all modelled reading values are   *)
(* multiples of 10 kWh, so value * rate is divisible by CostScale).        *)
(* Date.getTime is held in minutes, not milliseconds.  JavaScript numbers  *)
(* are modelled as exact rationals: floating-point rounding is not         *)
(* modelled.  Dates are local wall-clock times without daylight saving.    *)
(***************************************************************************)
EXTENDS Integers, Sequences, FiniteSets, TLC

\* ------------------------------------------------------------------------
\* Bounds of the model
\* ------------------------------------------------------------------------
MaxReadings == 2

\* the most cells of a grid written out for parseCsvRows
MaxCells == 3

\* the most data rows of a file handed to a parser
MaxRows == 2

\* the most characters of a text handed to parseCsvRows as it is
MaxChars == 4

\* the most readings the row loop of a parser hands to its normalization
\* when that is run on its own
MaxNormalized == 4

\* ------------------------------------------------------------------------
\* Units
\* ------------------------------------------------------------------------
RateScale == 100
CostScale == 10
MinutesPerDay == 1440

\* ------------------------------------------------------------------------
\* Exact rational arithmetic (JavaScript number arithmetic of compareTariffs)
\* ------------------------------------------------------------------------
Abs(x) == IF x < 0 THEN -x ELSE x

RECURSIVE GCD(_, _)
GCD(a, b) == IF b = 0 THEN a ELSE GCD(b, a % b)

\* n/d in lowest terms with a positive denominator
Rat(n, d) ==
  LET s == IF d < 0 THEN -1 ELSE 1
      g == GCD(Abs(n), Abs(d))
  IN  [num |-> (s * n) \div g, den |-> (s * d) \div g]

RatOfInt(n) == [num |-> n, den |-> 1]

RatMul(a, b) ==
  LET x == Rat(a.num, b.den)
      y == Rat(b.num, a.den)
  IN  Rat(x.num * y.num, x.den * y.den)

RatDiv(a, b) == RatMul(a, [num |-> b.den, den |-> b.num])

RatAdd(a, b) ==
  LET l == (a.den \div GCD(a.den, b.den)) * b.den
  IN  Rat(a.num * (l \div a.den) + b.num * (l \div b.den), l)

RatSub(a, b) == RatAdd(a, [num |-> -b.num, den |-> b.den])

RatLess(a, b) == RatSub(a, b).num < 0

RatMax(a, b) == IF RatLess(a, b) THEN b ELSE a

\* ------------------------------------------------------------------------
\* Date (the accessors the calculator uses)
\* ------------------------------------------------------------------------
\* A timestamp is [year, month (0..11), date (1..31), hours (0..23)].
getFullYear(d) == d.year
getMonth(d) == d.month
getHours(d) == d.hours

\* days since 1970-01-01 of a civil date (proleptic Gregorian calendar)
daysFromCivil(y, m, d) ==
  LET yy  == IF m <= 2 THEN y - 1 ELSE y
      era == yy \div 400
      yoe == yy - era * 400
      mp  == (m + 9) % 12
      doy == (153 * mp + 2) \div 5 + d - 1
      doe == yoe * 365 + yoe \div 4 - yoe \div 100 + doy
  IN  era * 146097 + doe - 719468

\* Date.getTime, in minutes
getTime(d) ==
  (daysFromCivil(d.year, d.month + 1, d.date) * 24 + d.hours) * 60

\* ------------------------------------------------------------------------
\* Strings of the month key: sequences of character codes
\* ------------------------------------------------------------------------
CharZero == 48
CharDash == 45

RECURSIVE toDigits(_)
toDigits(n) ==
  IF n < 10 THEN <<CharZero + n>>
  ELSE Append(toDigits(n \div 10), CharZero + (n % 10))

\* String(n).padStart(2, '0')
padStart2(s) == IF Len(s) < 2 THEN <<CharZero>> \o s ELSE s

\* `${date.getFullYear()}-${String(date.getMonth() + 1).padStart(2, '0')}`
monthKeyOf(date) ==
  toDigits(getFullYear(date)) \o <<CharDash>> \o padStart2(toDigits(getMonth(date) + 1))

\* a.localeCompare(b) on strings of digits and dashes: -1, 0 or 1
RECURSIVE localeCompare(_, _)
localeCompare(a, b) ==
  IF a = <<>> /\ b = <<>> THEN 0
  ELSE IF a = <<>> THEN -1
  ELSE IF b = <<>> THEN 1
  ELSE IF Head(a) < Head(b) THEN -1
  ELSE IF Head(a) > Head(b) THEN 1
  ELSE localeCompare(Tail(a), Tail(b))

\* ------------------------------------------------------------------------
\* Tariffs (types.ts Tariff, TariffPeriod; constants.tsx DEFAULT_TARIFFS)
\* ------------------------------------------------------------------------
\* summerRate of a period that defines none
Null == -1

Period(s, e, r, sr) == [startHour |-> s, endHour |-> e, rate |-> r, summerRate |-> sr]

\* The roster handed to compareTariffs: three tariffs of DEFAULT_TARIFFS and
\* two further rosters entries that exercise a tiered tariff without
\* summerRate, overlapping windows and hours no window contains.
Roster ==
  << [id |-> "pge-e1", type |-> "flat", fixedMonthlyCharge |-> 0,
      periods |-> << Period(0, 23, 3800, 4000) >>],
     [id |-> "pge-tou-c", type |-> "tou", fixedMonthlyCharge |-> 0,
      periods |-> << Period(16, 20, 4600, 5500), Period(21, 15, 3900, 4700) >>],
     [id |-> "pge-e-home", type |-> "tou", fixedMonthlyCharge |-> 15000,
      periods |-> << Period(16, 20, 4200, 5500), Period(15, 15, 3700, 4400),
                     Period(21, 23, 3700, 4400), Period(0, 14, 3000, 3400) >>],
     [id |-> "tiered-fixed", type |-> "tiered", fixedMonthlyCharge |-> 10000,
      periods |-> << Period(0, 23, 3000, Null) >>],
     [id |-> "tou-overlap", type |-> "tou", fixedMonthlyCharge |-> 5000,
      periods |-> << Period(18, 22, 3000, 3500), Period(16, 20, 5000, Null) >>] >>

\* ------------------------------------------------------------------------
\* Rate resolution
\* ------------------------------------------------------------------------
SummerBaseline == 270
WinterBaseline == 350
Tier2Factor == 128
Tier3Factor == 145
SeasonalTier2Factor == 124

\* part_001: isSummerMonth
isSummerMonth(month) == month >= 5 /\ month <= 8

\* part_001: getEffectiveRate
getEffectiveRate(period, month) ==
  IF period.summerRate /= Null /\ isSummerMonth(month)
  THEN period.summerRate
  ELSE period.rate

\* mutation of inRange: the end hour is excluded from the window
inRangeEndExclusive(p, hour) ==
  IF p.startHour <= p.endHour
  THEN hour >= p.startHour /\ hour < p.endHour
  ELSE hour >= p.startHour \/ hour < p.endHour

\* the predicate of tariff.periods.find (both texts; EnergyChart.tsx inRange)
inRange(p, hour) ==
  IF p.startHour <= p.endHour
  THEN hour >= p.startHour /\ hour <= p.endHour
  ELSE hour >= p.startHour \/ hour <= p.endHour

\* tariff.periods.find(...): index of the first period of the array the
\* predicate accepts, 0 for undefined
RECURSIVE findFrom(_, _, _)
findFrom(periods, hour, i) ==
  IF i > Len(periods) THEN 0
  ELSE IF inRange(periods[i], hour) THEN i
  ELSE findFrom(periods, hour, i + 1)

\* mutation of findPeriod: the last accepted period instead of the first
RECURSIVE findLastFrom(_, _, _)
findLastFrom(periods, hour, i) ==
  IF i = 0 THEN 0
  ELSE IF inRange(periods[i], hour) THEN i
  ELSE findLastFrom(periods, hour, i - 1)

findLastPeriod(periods, hour) == findLastFrom(periods, hour, Len(periods))

findPeriod(periods, hour) == findFrom(periods, hour, 1)

\* the rate a period contributes in each text of the calculator
periodRate(b, period, month) ==
  IF b = "part_001" THEN getEffectiveRate(period, month) ELSE period.rate

\* energyCalculator.ts, flat/tiered branch
tierRate(tariff, month, monthlyUsageCounter) ==
  LET isSummer == month >= 5 /\ month <= 8
      baseline == IF isSummer THEN SummerBaseline ELSE WinterBaseline
      baseRate == tariff.periods[1].rate
  IN  IF monthlyUsageCounter < baseline THEN baseRate
      ELSE IF monthlyUsageCounter < baseline * 4
           THEN (baseRate * Tier2Factor) \div RateScale
           ELSE (baseRate * Tier3Factor) \div RateScale

\* part_001, flat/tiered branch
seasonalTierRate(tariff, month, monthlyUsageCounter) ==
  LET isSummer == isSummerMonth(month)
      baseline == IF isSummer THEN SummerBaseline ELSE WinterBaseline
      baseRate == getEffectiveRate(tariff.periods[1], month)
  IN  IF monthlyUsageCounter < baseline THEN baseRate
      ELSE (baseRate * SeasonalTier2Factor) \div RateScale

\* both texts, tou branch: the period found, else periods[0]
touRate(b, tariff, month, hour) ==
  LET period == findPeriod(tariff.periods, hour)
  IN  IF period /= 0 THEN periodRate(b, tariff.periods[period], month)
      ELSE periodRate(b, tariff.periods[1], month)

\* the rate of one reading
readingRate(b, tariff, date, monthlyUsageCounter) ==
  IF tariff.type = "flat" \/ tariff.type = "tiered"
  THEN IF b = "part_001"
       THEN seasonalTierRate(tariff, getMonth(date), monthlyUsageCounter)
       ELSE tierRate(tariff, getMonth(date), monthlyUsageCounter)
  ELSE touRate(b, tariff, getMonth(date), getHours(date))

\* ------------------------------------------------------------------------
\* calculateDetailedCost
\* ------------------------------------------------------------------------
\* The locals a call starts with: periodMap = {}, totalCost = 0,
\* monthlyUsageCounter = 0, currentMonth = -1 (rate and period are the
\* per-reading locals, not yet assigned).
freshLocals ==
  [periodMap |-> <<>>, totalCost |-> 0, monthlyUsageCounter |-> 0,
   currentMonth |-> -1, rate |-> 0, period |-> 0]

\* periodMap is held as its entries in insertion order (the order of
\* Object.keys for keys that are not array indices).
RECURSIVE keyIndex(_, _, _)
keyIndex(periodMap, key, i) ==
  IF i > Len(periodMap) THEN 0
  ELSE IF periodMap[i].key = key THEN i
  ELSE keyIndex(periodMap, key, i + 1)

\* mutation of counterAt: the counter is reset at every reading
counterAlwaysReset(st, date) == 0

\* mutation of counterAt: the counter is never reset on a month change
counterNeverReset(st, date) == st.monthlyUsageCounter

\* "Reset tiered usage if month changes": the counter a reading is rated at
counterAt(st, date) ==
  IF getMonth(date) /= st.currentMonth THEN 0 ELSE st.monthlyUsageCounter

\* the body of readings.forEach
processReading(b, tariff, st, reading) ==
  LET date == reading.timestamp
      monthKey == monthKeyOf(date)
      counter == counterAt(st, date)
      pm == IF keyIndex(st.periodMap, monthKey, 1) = 0
            THEN Append(st.periodMap, [key |-> monthKey, usage |-> 0, cost |-> 0])
            ELSE st.periodMap
      k == keyIndex(pm, monthKey, 1)
      rate == readingRate(b, tariff, date, counter)
      energyCost == (reading.value * rate) \div CostScale
  IN  [periodMap |-> [pm EXCEPT ![k] = [key |-> monthKey,
                                        usage |-> pm[k].usage + reading.value,
                                        cost |-> pm[k].cost + energyCost]],
       totalCost |-> st.totalCost + energyCost,
       monthlyUsageCounter |-> counter + reading.value,
       currentMonth |-> getMonth(date),
       rate |-> rate,
       period |-> IF tariff.type = "flat" \/ tariff.type = "tiered" THEN 0
                  ELSE findPeriod(tariff.periods, getHours(date))]

RECURSIVE foldReadings(_, _, _, _, _)
foldReadings(b, tariff, st, rs, i) ==
  IF i > Len(rs) THEN st
  ELSE foldReadings(b, tariff, processReading(b, tariff, st, rs[i]), rs, i + 1)

\* mutation of newestFirst: the comparator's operands swapped
oldestFirst(x, y) == localeCompare(x.monthName, y.monthName)

\* the comparator of the breakdown sort: (a, b) => b.monthName.localeCompare(a.monthName)
newestFirst(x, y) == localeCompare(y.monthName, x.monthName)

\* Array.prototype.sort (stable), as an insertion sort
RECURSIVE insertSorted(_, _)
insertSorted(sorted, x) ==
  IF sorted = <<>> THEN <<x>>
  ELSE IF newestFirst(x, Head(sorted)) < 0 THEN <<x>> \o sorted
  ELSE <<Head(sorted)>> \o insertSorted(Tail(sorted), x)

RECURSIVE sortBreakdown(_, _)
sortBreakdown(entries, i) ==
  IF i = 0 THEN <<>>
  ELSE insertSorted(sortBreakdown(entries, i - 1), entries[i])

\* mutation of entryFixedCharge: the fixed charge left out of the entries
noEntryFixedCharge(tariff) == 0

\* the fixed charge one breakdown entry carries
entryFixedCharge(tariff) == tariff.fixedMonthlyCharge

\* Object.keys(periodMap).map(...).sort(...) and totalWithFixed
finishCost(tariff, st) ==
  LET mapped == [i \in 1..Len(st.periodMap) |->
                   [monthName |-> st.periodMap[i].key,
                    usage |-> st.periodMap[i].usage,
                    cost |-> st.periodMap[i].cost + entryFixedCharge(tariff)]]
      breakdown == sortBreakdown(mapped, Len(mapped))
  IN  [totalCost |-> st.totalCost + Len(breakdown) * tariff.fixedMonthlyCharge,
       breakdown |-> breakdown]

calculateDetailedCost(b, readings, tariff) ==
  finishCost(tariff, foldReadings(b, tariff, freshLocals, readings, 1))

\* ------------------------------------------------------------------------
\* compareTariffs
\* ------------------------------------------------------------------------
RECURSIVE findTariff(_, _, _)
findTariff(allTariffs, id, i) ==
  IF i > Len(allTariffs) THEN 0
  ELSE IF allTariffs[i].id = id THEN i
  ELSE findTariff(allTariffs, id, i + 1)

RECURSIVE sumValues(_, _)
sumValues(rs, i) == IF i = 0 THEN 0 ELSE sumValues(rs, i - 1) + rs[i].value

\* mutation of daysInReadings: the floor of 0.1 day left out
daysInReadingsNoFloor(readings) ==
  Rat(getTime(readings[Len(readings)].timestamp) - getTime(readings[1].timestamp),
      MinutesPerDay)

\* Math.max(0.1, msInReadings / (1000 * 60 * 60 * 24))
daysInReadings(readings) ==
  LET msInReadings == getTime(readings[Len(readings)].timestamp)
                      - getTime(readings[1].timestamp)
  IN  RatMax(Rat(1, 10), Rat(msInReadings, MinutesPerDay))

monthMultiplier(readings) == RatDiv(RatOfInt(30), daysInReadings(readings))

\* mutation of monthlyEstimate: the whole total is scaled, fixed charges included
scaledTotalEstimate(calc, t, multiplier) ==
  RatAdd(RatMul(RatOfInt(calc.totalCost), multiplier), RatOfInt(t.fixedMonthlyCharge))

\* (energyOnly * monthMultiplier) + fixedMonthlyCharge
monthlyEstimate(calc, t, multiplier) ==
  LET energyCostOnly == calc.totalCost - Len(calc.breakdown) * t.fixedMonthlyCharge
  IN  RatAdd(RatMul(RatOfInt(energyCostOnly), multiplier),
             RatOfInt(t.fixedMonthlyCharge))

\* mutation of savings: the difference taken the other way round
savingsReversed(currentMonthlyEstimate, estimatedMonthlyCost) ==
  RatSub(estimatedMonthlyCost, currentMonthlyEstimate)

\* savingsVsCurrent of one result
savings(currentMonthlyEstimate, estimatedMonthlyCost) ==
  RatSub(currentMonthlyEstimate, estimatedMonthlyCost)

compareTariffs(b, readings, currentTariffId, allTariffs) ==
  IF Len(readings) = 0 THEN <<>>
  ELSE
    LET found == findTariff(allTariffs, currentTariffId, 1)
        currentTariff == IF found /= 0 THEN allTariffs[found] ELSE allTariffs[1]
        currentCalc == calculateDetailedCost(b, readings, currentTariff)
        multiplier == monthMultiplier(readings)
        currentMonthlyEstimate == monthlyEstimate(currentCalc, currentTariff, multiplier)
    IN  [i \in 1..Len(allTariffs) |->
          LET t == allTariffs[i]
              calc == calculateDetailedCost(b, readings, t)
              estimatedMonthlyCost == monthlyEstimate(calc, t, multiplier)
          IN  [tariffId |-> t.id,
               totalUsage |-> sumValues(readings, Len(readings)),
               totalCost |-> calc.totalCost,
               estimatedMonthlyCost |-> estimatedMonthlyCost,
               savingsVsCurrent |-> savings(currentMonthlyEstimate, estimatedMonthlyCost),
               breakdown |-> calc.breakdown]]

\* ------------------------------------------------------------------------
\* sortedComparisons and bestTariff of the App (src/unnamed/part_000)
\* ------------------------------------------------------------------------
\* mutation of cheaperFirst: the dearer estimate comes first
dearerFirst(a, b) == RatSub(b.estimatedMonthlyCost, a.estimatedMonthlyCost)

\* (a, b) => a.estimatedMonthlyCost - b.estimatedMonthlyCost
cheaperFirst(a, b) == RatSub(a.estimatedMonthlyCost, b.estimatedMonthlyCost)

\* Array.prototype.sort with cheaperFirst (stable): x goes behind every entry
\* it does not precede
RECURSIVE insertByEstimate(_, _)
insertByEstimate(sorted, x) ==
  IF sorted = <<>> THEN <<x>>
  ELSE IF cheaperFirst(x, Head(sorted)).num < 0 THEN <<x>> \o sorted
  ELSE <<Head(sorted)>> \o insertByEstimate(Tail(sorted), x)

RECURSIVE sortByEstimate(_, _)
sortByEstimate(entries, k) ==
  IF k = 0 THEN <<>>
  ELSE insertByEstimate(sortByEstimate(entries, k - 1), entries[k])

\* comparisons.find(c => c.tariffId === id): the index, 0 for undefined
RECURSIVE findEntry(_, _, _)
findEntry(comparisons, id, k) ==
  IF k > Len(comparisons) THEN 0
  ELSE IF comparisons[k].tariffId = id THEN k
  ELSE findEntry(comparisons, id, k + 1)

\* the entry of the current tariff first, the others by ascending estimate
sortedComparisons(comparisons, currentTariffId) ==
  IF Len(comparisons) = 0 THEN <<>>
  ELSE
    LET found == findEntry(comparisons, currentTariffId, 1)
        others == SelectSeq(comparisons, LAMBDA c : c.tariffId /= currentTariffId)
        otherEntries == sortByEstimate(others, Len(others))
    IN  IF found /= 0 THEN <<comparisons[found]>> \o otherEntries ELSE otherEntries

\* [...comparisons].sort(cheaperFirst)[0], for a non-empty list
bestTariff(comparisons) == sortByEstimate(comparisons, Len(comparisons))[1]

\* ------------------------------------------------------------------------
\* Inputs
\* ------------------------------------------------------------------------
Stamp(y, m, d, h) == [year |-> y, month |-> m, date |-> d, hours |-> h]

\* the instants readings are drawn from, in chronological order: two
\* Decembers of different years, two January evenings ten days apart, two
\* July afternoon hours one hour apart
Timestamps ==
  << Stamp(2024, 11, 31, 23), Stamp(2025, 0, 5, 19), Stamp(2025, 0, 15, 19),
     Stamp(2025, 6, 10, 15), Stamp(2025, 6, 10, 16), Stamp(2025, 11, 1, 0) >>

\* reading values in kWh (negative under solar netting)
Values == {-10, 130, 270, 1100}

\* strictly increasing index sequences of length n over 1..m
RECURSIVE Increasing(_, _)
Increasing(n, m) ==
  IF n = 0 THEN {<<>>}
  ELSE UNION {{Append(s, k) : s \in Increasing(n - 1, k - 1)} : k \in 1..m}

\* the reading lists a parse can hand over: sorted, timestamps distinct
ReadingLists ==
  UNION {UNION {{[i \in 1..n |-> [timestamp |-> Timestamps[ix[i]], value |-> vs[i]]]
                   : vs \in [1..n -> Values]}
                : ix \in Increasing(n, Len(Timestamps))}
         : n \in 0..MaxReadings}

Builds == {"services", "part_001"}

\* ids compareTariffs is called with: one of the roster, one it does not hold
TariffIds == {"tou-overlap", "not-in-roster"}

\* ------------------------------------------------------------------------
\* State
\* ------------------------------------------------------------------------
VARIABLES
  build,            \* which text of the calculator is bundled
  readings,         \* the reading list of the session
  pc,               \* "idle", or "loop" inside calculateDetailedCost
  tariffIx,         \* Roster index of the tariff of the running or last call
  i,                \* index of the next reading of readings.forEach
  locals,           \* the locals of the running (or last) call
  ret,              \* what the last call returned (and the id it was given)
  reentered,        \* the running or last call started after another returned
  gasReadings,      \* the gas reading list of the session
  gasRet,           \* what the last call of the gas calculator returned
  grid,             \* the cells a CSV text was written from
  csvText,          \* the text handed to a parser
  scan,             \* the locals of parseCsvRows
  parser,           \* which parser is applied to csvText
  engine,           \* how the engine's Date reads texts outside the ISO format
  parse,            \* the locals of the running (or last) parse
  outcome,          \* what the parse returned or threw
  helper,           \* a helper of the parsers called on its own: argument, result
  app               \* the state of the App component, once it is mounted

vars == <<build, readings, pc, tariffIx, i, locals, ret, reentered,
          gasReadings, gasRet, grid, csvText, scan, parser, engine, parse, outcome,
          helper, app>>

\* the variables of the App component and of the helpers called on their own
pageVars == <<helper, app>>

\* the variables of parsePgeIntervalCsv and parsePgeGasCsv
parseVars == <<parser, engine, parse, outcome>>

\* the variables of the gas calculator
gasVars == <<gasReadings, gasRet>>

\* the variables the electricity calculator does not touch
notCalc == <<gasVars, grid, csvText, scan, parseVars, pageVars>>

NoReturn == [kind |-> "none"]

\* no gas data is loaded, the gas calculator has not run
GasIdle == gasReadings = <<>> /\ gasRet = NoReturn

\* neither parsePgeIntervalCsv nor parsePgeGasCsv has been called
NoParse ==
  /\ parser = "none"
  /\ engine = "none"
  /\ parse = [pc |-> "idle"]
  /\ outcome = [kind |-> "none"]

\* no file has been chosen, no parser has run
ParserIdle == grid = <<>> /\ csvText = <<>> /\ scan = [pc |-> "idle"] /\ NoParse

NoHelper == [fn |-> "none"]
NoApp == [mounted |-> FALSE]

\* the App component is not mounted, no helper is called on its own
PageIdle == helper = NoHelper /\ app = NoApp

Init ==
  /\ build \in Builds
  /\ readings \in ReadingLists
  /\ pc = "idle"
  /\ tariffIx = 0
  /\ i = 0
  /\ locals = freshLocals
  /\ ret = NoReturn
  /\ reentered = FALSE
  /\ PageIdle
  /\ GasIdle
  /\ ParserIdle

\* mutation of enterCall: the counter and the tracked month live outside the
\* function and keep what the call before left in them
enterCallShared(prev) ==
  [freshLocals EXCEPT !.monthlyUsageCounter = prev.monthlyUsageCounter,
                      !.currentMonth = prev.currentMonth]

\* the locals on entry of a call; prev is what the frame of the call before
\* it held (all locals are declared with let/const inside the function)
enterCall(prev) == freshLocals

\* calculateDetailedCost(readings, Roster[t]) is entered
CallCalculate(t) ==
  /\ pc = "idle"
  /\ pc' = "loop"
  /\ tariffIx' = t
  /\ i' = 1
  /\ locals' = enterCall(locals)
  /\ ret' = NoReturn
  /\ reentered' = (reentered \/ ret /= NoReturn)
  /\ UNCHANGED <<build, readings>>
  /\ UNCHANGED notCalc

\* one iteration of readings.forEach
ForEachReading ==
  /\ pc = "loop"
  /\ i <= Len(readings)
  /\ locals' = processReading(build, Roster[tariffIx], locals, readings[i])
  /\ i' = i + 1
  /\ UNCHANGED <<build, readings, pc, tariffIx, ret, reentered>>
  /\ UNCHANGED notCalc

\* the breakdown is built and sorted, the total returned
ReturnCost ==
  /\ pc = "loop"
  /\ i > Len(readings)
  /\ ret' = [kind |-> "cost", cost |-> finishCost(Roster[tariffIx], locals)]
  /\ pc' = "idle"
  /\ UNCHANGED <<build, readings, tariffIx, i, locals, reentered>>
  /\ UNCHANGED notCalc

\* compareTariffs(readings, currentTariffId, Roster) runs to its return; the
\* last call of calculateDetailedCost it made (none for no readings) was for
\* the last tariff of the roster
CallCompareTariffs(currentTariffId) ==
  /\ pc = "idle"
  /\ ret' = [kind |-> "comparisons",
             currentTariffId |-> currentTariffId,
             results |-> compareTariffs(build, readings, currentTariffId, Roster)]
  /\ IF Len(readings) = 0
     THEN UNCHANGED <<tariffIx, i, locals>>
     ELSE /\ tariffIx' = Len(Roster)
          /\ i' = Len(readings) + 1
          /\ locals' = foldReadings(build, Roster[Len(Roster)], freshLocals, readings, 1)
  /\ reentered' = (reentered \/ ret /= NoReturn)
  /\ UNCHANGED <<build, readings, pc>>
  /\ UNCHANGED notCalc

Next ==
  \/ \E t \in 1..Len(Roster) : CallCalculate(t)
  \/ ForEachReading
  \/ ReturnCost
  \/ \E id \in TariffIds : CallCompareTariffs(id)

Spec == Init /\ [][Next]_vars

\* calculateDetailedCost alone: its calls, one after another
CostNext ==
  \/ \E t \in 1..Len(Roster) : CallCalculate(t)
  \/ ForEachReading
  \/ ReturnCost

CostSpec == Init /\ [][CostNext]_vars

\* compareTariffs alone: its calls, one after another
CompareNext == \E id \in TariffIds : CallCompareTariffs(id)

CompareSpec == Init /\ [][CompareNext]_vars

\* ========================================================================
\* The gas calculator (src/services/gasCalculator.ts)
\* ========================================================================
\* Gas values are whole therms, rates and money are in 1/1000 $, so that
\* therms x rate is a cost in 1/1000 $.
\* DEFAULT_GAS_TARIFF, and a tariff with another baseline and no fixed charge
GasTariffs ==
  << [id |-> "pge-g1", baselineRate |-> 2516, overBaselineRate |-> 3014,
      baselineTherms |-> 32, fixedMonthlyCharge |-> 18680],
     [id |-> "gas-no-fixed", baselineRate |-> 2000, overBaselineRate |-> 3000,
      baselineTherms |-> 10, fixedMonthlyCharge |-> 0] >>

\* monthlyData: the readings grouped by monthKey, in insertion order
RECURSIVE groupByMonth(_, _)
groupByMonth(rs, n) ==
  IF n = 0 THEN <<>>
  ELSE
    LET monthlyData == groupByMonth(rs, n - 1)
        monthKey == monthKeyOf(rs[n].timestamp)
        k == keyIndex(monthlyData, monthKey, 1)
    IN  IF k = 0
        THEN Append(monthlyData, [key |-> monthKey, readings |-> <<rs[n]>>])
        ELSE [monthlyData EXCEPT ![k].readings = Append(@, rs[n])]

\* the cost of one month: Math.min(usage, baselineTherms) at the baseline
\* rate, Math.max(0, usage - baselineTherms) at the over-baseline rate, and
\* the fixed charge
gasMonthCost(usage, tariff) ==
  LET baseline == IF usage < tariff.baselineTherms THEN usage ELSE tariff.baselineTherms
      overBaseline == IF usage - tariff.baselineTherms > 0
                      THEN usage - tariff.baselineTherms ELSE 0
  IN  baseline * tariff.baselineRate + overBaseline * tariff.overBaselineRate
      + tariff.fixedMonthlyCharge

\* a.monthName.localeCompare(b.monthName)
gasOldestFirst(x, y) == localeCompare(x.monthName, y.monthName)

\* breakdown.sort (stable)
RECURSIVE insertGasEntry(_, _)
insertGasEntry(sorted, x) ==
  IF sorted = <<>> THEN <<x>>
  ELSE IF gasOldestFirst(x, Head(sorted)) < 0 THEN <<x>> \o sorted
  ELSE <<Head(sorted)>> \o insertGasEntry(Tail(sorted), x)

RECURSIVE sortGasBreakdown(_, _)
sortGasBreakdown(entries, n) ==
  IF n = 0 THEN <<>>
  ELSE insertGasEntry(sortGasBreakdown(entries, n - 1), entries[n])

calculateGasMonthlyBreakdown(rs, tariff) ==
  IF Len(rs) = 0 THEN <<>>
  ELSE
    LET monthlyData == groupByMonth(rs, Len(rs))
        breakdown ==
          [k \in 1..Len(monthlyData) |->
             LET monthReadings == monthlyData[k].readings
                 usage == sumValues(monthReadings, Len(monthReadings))
             IN  [monthName |-> monthlyData[k].key,
                  usage |-> usage,
                  cost |-> gasMonthCost(usage, tariff)]]
    IN  sortGasBreakdown(breakdown, Len(breakdown))

\* breakdown.reduce((sum, m) => sum + m.usage, 0)
RECURSIVE sumUsage(_, _)
sumUsage(breakdown, n) ==
  IF n = 0 THEN 0 ELSE sumUsage(breakdown, n - 1) + breakdown[n].usage

\* breakdown.reduce((sum, m) => sum + m.cost, 0)
RECURSIVE sumCost(_, _)
sumCost(breakdown, n) ==
  IF n = 0 THEN 0 ELSE sumCost(breakdown, n - 1) + breakdown[n].cost

\* mutation of gasMonthlyAverage: the total scaled from the observation
\* window to 30 days, as compareTariffs scales electricity
gasWindowScaledAverage(totalCost, breakdown, rs) ==
  IF Len(breakdown) > 0
  THEN RatMul(RatOfInt(totalCost), monthMultiplier(rs))
  ELSE RatOfInt(0)

\* breakdown.length > 0 ? totalCost / breakdown.length : 0
gasMonthlyAverage(totalCost, breakdown, rs) ==
  IF Len(breakdown) > 0 THEN Rat(totalCost, Len(breakdown)) ELSE RatOfInt(0)

calculateGasComparison(rs, tariff) ==
  LET breakdown == calculateGasMonthlyBreakdown(rs, tariff)
      totalUsage == sumUsage(breakdown, Len(breakdown))
      totalCost == sumCost(breakdown, Len(breakdown))
  IN  [tariffId |-> tariff.id,
       totalUsage |-> totalUsage,
       totalCost |-> totalCost,
       estimatedMonthlyCost |-> gasMonthlyAverage(totalCost, breakdown, rs),
       breakdown |-> breakdown]

\* gas reading values in therms: below, at and above the baselines, and a
\* negative one
GasValues == {-5, 10, 32, 40}

\* the gas reading lists a parse can hand over: sorted, timestamps distinct
GasReadingLists ==
  UNION {UNION {{[k \in 1..n |-> [timestamp |-> Timestamps[ix[k]], value |-> vs[k]]]
                   : vs \in [1..n -> GasValues]}
                : ix \in Increasing(n, Len(Timestamps))}
         : n \in 0..MaxReadings}

\* the variables the gas calculator does not touch
notGas == <<build, readings, pc, tariffIx, i, locals, ret, reentered,
           grid, csvText, scan, parseVars, pageVars>>

\* a session with gas data only
GasInit ==
  /\ gasReadings \in GasReadingLists
  /\ gasRet = NoReturn
  /\ build = "services"
  /\ readings = <<>>
  /\ pc = "idle"
  /\ tariffIx = 0
  /\ i = 0
  /\ locals = freshLocals
  /\ ret = NoReturn
  /\ reentered = FALSE
  /\ PageIdle
  /\ ParserIdle

\* calculateGasComparison(gasReadings, GasTariffs[t]) runs to its return
CallGasComparison(t) ==
  /\ gasRet' = [kind |-> "gasComparison",
                tariffIx |-> t,
                result |-> calculateGasComparison(gasReadings, GasTariffs[t])]
  /\ UNCHANGED gasReadings
  /\ UNCHANGED notGas

GasNext == \E t \in 1..Len(GasTariffs) : CallGasComparison(t)

GasSpec == GasInit /\ [][GasNext]_vars

\* ------------------------------------------------------------------------
\* calculateGasCost and calculateGasMonthlyBreakdown side by side
\* ------------------------------------------------------------------------
\* monthlyUsage: the usage summed by monthKey, in insertion order
RECURSIVE usageByMonth(_, _)
usageByMonth(rs, n) ==
  IF n = 0 THEN <<>>
  ELSE
    LET monthlyUsage == usageByMonth(rs, n - 1)
        monthKey == monthKeyOf(rs[n].timestamp)
        k == keyIndex(monthlyUsage, monthKey, 1)
    IN  IF k = 0
        THEN Append(monthlyUsage, [key |-> monthKey, usage |-> 0 + rs[n].value])
        ELSE [monthlyUsage EXCEPT ![k].usage = @ + rs[n].value]

noGasTotals ==
  [totalTherms |-> 0, baselineTherms |-> 0, overBaselineTherms |-> 0,
   baselineCost |-> 0, overBaselineCost |-> 0]

\* mutation of gasTotals: the part over the baseline is usage minus the
\* baseline, below zero for a month under its baseline
RECURSIVE gasTotalsNoClamp(_, _, _)
gasTotalsNoClamp(monthlyUsage, n, tariff) ==
  IF n = 0 THEN noGasTotals
  ELSE
    LET t == gasTotalsNoClamp(monthlyUsage, n - 1, tariff)
        usage == monthlyUsage[n].usage
        baseline == IF usage < tariff.baselineTherms THEN usage ELSE tariff.baselineTherms
        overBaseline == usage - tariff.baselineTherms
    IN  [totalTherms |-> t.totalTherms + usage,
         baselineTherms |-> t.baselineTherms + baseline,
         overBaselineTherms |-> t.overBaselineTherms + overBaseline,
         baselineCost |-> t.baselineCost + baseline * tariff.baselineRate,
         overBaselineCost |-> t.overBaselineCost + overBaseline * tariff.overBaselineRate]

\* for (const [, usage] of monthlyUsage): the five running totals after the
\* first n months
RECURSIVE gasTotals(_, _, _)
gasTotals(monthlyUsage, n, tariff) ==
  IF n = 0 THEN noGasTotals
  ELSE
    LET t == gasTotals(monthlyUsage, n - 1, tariff)
        usage == monthlyUsage[n].usage
        baseline == IF usage < tariff.baselineTherms THEN usage ELSE tariff.baselineTherms
        overBaseline == IF usage - tariff.baselineTherms > 0
                        THEN usage - tariff.baselineTherms ELSE 0
    IN  [totalTherms |-> t.totalTherms + usage,
         baselineTherms |-> t.baselineTherms + baseline,
         overBaselineTherms |-> t.overBaselineTherms + overBaseline,
         baselineCost |-> t.baselineCost + baseline * tariff.baselineRate,
         overBaselineCost |-> t.overBaselineCost + overBaseline * tariff.overBaselineRate]

calculateGasCost(rs, tariff) ==
  IF Len(rs) = 0
  THEN [totalTherms |-> 0, totalCost |-> 0, baselineTherms |-> 0,
        overBaselineTherms |-> 0, baselineCost |-> 0, overBaselineCost |-> 0,
        fixedCharges |-> 0]
  ELSE
    LET monthlyUsage == usageByMonth(rs, Len(rs))
        t == gasTotals(monthlyUsage, Len(monthlyUsage), tariff)
        numMonths == Len(monthlyUsage)
        fixedCharges == numMonths * tariff.fixedMonthlyCharge
        totalCost == t.baselineCost + t.overBaselineCost + fixedCharges
    IN  [totalTherms |-> t.totalTherms,
         totalCost |-> totalCost,
         baselineTherms |-> t.baselineTherms,
         overBaselineTherms |-> t.overBaselineTherms,
         baselineCost |-> t.baselineCost,
         overBaselineCost |-> t.overBaselineCost,
         fixedCharges |-> fixedCharges]

\* what the two calculators last returned for the tariff t: a result of the
\* other one is kept when it was for the same tariff
gasReturns(t) ==
  IF gasRet.kind = "gasCalculators" /\ gasRet.tariffIx = t THEN gasRet
  ELSE [kind |-> "gasCalculators", tariffIx |-> t, cost |-> NoReturn,
        breakdown |-> NoReturn]

\* calculateGasCost(gasReadings, GasTariffs[t]) runs to its return
CallGasCost(t) ==
  /\ gasRet' = [gasReturns(t) EXCEPT
                  !.cost = [kind |-> "cost",
                            result |-> calculateGasCost(gasReadings, GasTariffs[t])]]
  /\ UNCHANGED gasReadings
  /\ UNCHANGED notGas

\* calculateGasMonthlyBreakdown(gasReadings, GasTariffs[t]) runs to its return
CallGasMonthlyBreakdown(t) ==
  /\ gasRet' = [gasReturns(t) EXCEPT
                  !.breakdown =
                    [kind |-> "breakdown",
                     result |-> calculateGasMonthlyBreakdown(gasReadings, GasTariffs[t])]]
  /\ UNCHANGED gasReadings
  /\ UNCHANGED notGas

GasCostNext ==
  \/ \E t \in 1..Len(GasTariffs) : CallGasCost(t)
  \/ \E t \in 1..Len(GasTariffs) : CallGasMonthlyBreakdown(t)

GasCostSpec == GasInit /\ [][GasCostNext]_vars

\* ========================================================================
\* The CSV parsers (src/services/pgeCsvParser.ts, pgeGasCsvParser.ts)
\* ========================================================================
\* A string is the sequence of its characters, each a one-character string.
\* ------------------------------------------------------------------------
\* parseCsvRows
\* ------------------------------------------------------------------------
Quote == "\""
Comma == ","
LF == "\n"
CR == "\r"

\* the characters String.prototype.trim removes that the files hold
isSpace(ch) == ch \in {" ", "\t", LF, CR}

\* c.trim() !== ''
nonBlank(c) == \E k \in 1..Len(c) : ~isSpace(c[k])

\* mutation of normalizeLineEndings: \r\n becomes \n, a \r alone is left
normalizeCrLfOnly(text) ==
  LET crlf(k) == text[k] = CR /\ k < Len(text) /\ text[k + 1] = LF
      kept == SelectSeq([k \in 1..Len(text) |-> k], LAMBDA k : ~crlf(k))
  IN  [j \in 1..Len(kept) |-> text[kept[j]]]

\* csvText.replace(/\r\n/g, '\n').replace(/\r/g, '\n')
normalizeLineEndings(text) ==
  LET crlf(k) == text[k] = CR /\ k < Len(text) /\ text[k + 1] = LF
      kept == SelectSeq([k \in 1..Len(text) |-> k], LAMBDA k : ~crlf(k))
  IN  [j \in 1..Len(kept) |-> IF text[kept[j]] = CR THEN LF ELSE text[kept[j]]]

\* the locals of parseCsvRows before it is called
scanIdle ==
  [pc |-> "idle", text |-> <<>>, i |-> 0, cell |-> <<>>, row |-> <<>>,
   rows |-> <<>>, inQuotes |-> FALSE]

\* the locals of parseCsvRows on entry of the character loop; i counts from 1
scanEnter(txt) ==
  [pc |-> "loop", text |-> normalizeLineEndings(txt), i |-> 1,
   cell |-> <<>>, row |-> <<>>, rows |-> <<>>, inQuotes |-> FALSE]

\* pushCell: row.push(cell); cell = ''
pushCell(st) == [st EXCEPT !.row = Append(st.row, st.cell), !.cell = <<>>]

\* pushRow: fully empty rows are skipped
pushRow(st) ==
  [st EXCEPT !.rows = IF \E k \in 1..Len(st.row) : nonBlank(st.row[k])
                      THEN Append(st.rows, st.row) ELSE st.rows,
             !.row = <<>>]

\* mutation of quoteStep: a quote mark always toggles inQuotes, a doubled
\* quote is not read as an escaped quote
quoteStepNoEscape(st) ==
  [st EXCEPT !.inQuotes = ~st.inQuotes, !.i = st.i + 1]

\* the character is a quote mark: an escaped quote inside a quoted cell, or
\* the start or the end of the quoted part
quoteStep(st) ==
  IF st.inQuotes /\ st.i + 1 <= Len(st.text) /\ st.text[st.i + 1] = Quote
  THEN [st EXCEPT !.cell = Append(st.cell, Quote), !.i = st.i + 2]
  ELSE [st EXCEPT !.inQuotes = ~st.inQuotes, !.i = st.i + 1]

\* mutation of scanStep: a comma ends the cell inside quotes as well
scanStepQuoteBlind(st) ==
  LET ch == st.text[st.i]
  IN  IF ch = Quote THEN quoteStep(st)
      ELSE IF ch = Comma
           THEN [pushCell(st) EXCEPT !.i = st.i + 1]
      ELSE IF ~st.inQuotes /\ ch = LF
           THEN [pushRow(pushCell(st)) EXCEPT !.i = st.i + 1]
      ELSE [st EXCEPT !.cell = Append(st.cell, ch), !.i = st.i + 1]

\* one iteration of the character loop
scanStep(st) ==
  LET ch == st.text[st.i]
  IN  IF ch = Quote THEN quoteStep(st)
      ELSE IF ~st.inQuotes /\ ch = Comma
           THEN [pushCell(st) EXCEPT !.i = st.i + 1]
      ELSE IF ~st.inQuotes /\ ch = LF
           THEN [pushRow(pushCell(st)) EXCEPT !.i = st.i + 1]
      ELSE [st EXCEPT !.cell = Append(st.cell, ch), !.i = st.i + 1]

\* "Flush last cell/row" and return
scanFlush(st) == [pushRow(pushCell(st)) EXCEPT !.pc = "done"]

\* n iterations of the loop, or as many as the text has left
RECURSIVE scanSteps(_, _)
scanSteps(st, n) ==
  IF n = 0 \/ st.i > Len(st.text) THEN st
  ELSE IF n = 1 THEN scanStep(st)
  ELSE scanSteps(scanSteps(st, n \div 2), n - n \div 2)

\* the character loop: it ends within one iteration per character
scanLoop(st) == scanSteps(st, Len(st.text))

parseCsvRows(txt) == scanFlush(scanLoop(scanEnter(txt))).rows

\* ------------------------------------------------------------------------
\* Texts handed to parseCsvRows: grids of cells written out as CSV
\* ------------------------------------------------------------------------
\* each inner quote doubled
RECURSIVE doubleQuotes(_)
doubleQuotes(c) ==
  IF c = <<>> THEN <<>>
  ELSE IF Head(c) = Quote THEN <<Quote, Quote>> \o doubleQuotes(Tail(c))
  ELSE <<Head(c)>> \o doubleQuotes(Tail(c))

\* a cell as a double-quoted field
quoteCell(c) == <<Quote>> \o doubleQuotes(c) \o <<Quote>>

\* the cells of a row joined by commas
RECURSIVE writeRow(_, _)
writeRow(row, n) ==
  IF n = 0 THEN <<>>
  ELSE IF n = 1 THEN quoteCell(row[1])
  ELSE writeRow(row, n - 1) \o <<Comma>> \o quoteCell(row[n])

\* the rows from..to of a grid joined by the line break eol
RECURSIVE writeRows(_, _, _, _)
writeRows(g, from, to, eol) ==
  IF from > to THEN <<>>
  ELSE IF from = to THEN writeRow(g[from], Len(g[from]))
  ELSE LET mid == (from + to) \div 2
       IN  writeRows(g, from, mid, eol) \o eol \o writeRows(g, mid + 1, to, eol)

\* the first n rows of a grid joined by the line break eol
writeCsv(g, n, eol) == writeRows(g, 1, n, eol)

\* cell contents: empty, blank, plain, a quote mark, quote-comma-quote, and
\* a letter followed by a line break
TokCells == << <<>>, <<" ">>, <<"a">>, <<Quote>>, <<Quote, Comma, Quote>>, <<"b", LF>> >>

LineBreaks == {<<LF>>, <<CR, LF>>, <<CR>>}

\* the grid of the cells cs, a new row started behind cell k iff breaks[k]
RECURSIVE gridOf(_, _, _)
gridOf(cs, breaks, n) ==
  IF n = 1 THEN << <<cs[1]>> >>
  ELSE LET g == gridOf(cs, breaks, n - 1)
       IN  IF breaks[n - 1] THEN Append(g, <<cs[n]>>)
           ELSE [g EXCEPT ![Len(g)] = Append(@, cs[n])]

\* a text whose line breaks are \n, written with the line break eol instead
RECURSIVE withLineBreaks(_, _)
withLineBreaks(text, eol) ==
  IF text = <<>> THEN <<>>
  ELSE (IF Head(text) = LF THEN eol ELSE <<Head(text)>>) \o withLineBreaks(Tail(text), eol)

\* all grids of n cells
TokGrids(n) ==
  UNION {{gridOf([k \in 1..n |-> TokCells[ix[k]]], breaks, n)
            : breaks \in [1..(n - 1) -> BOOLEAN]}
         : ix \in [1..n -> 1..Len(TokCells)]}

\* the variables parseCsvRows does not touch
notScan == <<build, readings, pc, tariffIx, i, locals, ret, reentered, gasVars,
            parseVars, pageVars>>

\* a grid has been written out, parseCsvRows has not been called
TokInit ==
  /\ \E n \in 1..MaxCells : grid \in TokGrids(n)
  /\ \E eol \in LineBreaks :
       csvText = withLineBreaks(writeCsv(grid, Len(grid), <<LF>>), eol)
  /\ scan = scanIdle
  /\ NoParse
  /\ build = "services"
  /\ readings = <<>>
  /\ pc = "idle"
  /\ tariffIx = 0
  /\ i = 0
  /\ locals = freshLocals
  /\ ret = NoReturn
  /\ reentered = FALSE
  /\ PageIdle
  /\ GasIdle

\* parseCsvRows(csvText) is entered
ScanEnter ==
  /\ scan.pc = "idle"
  /\ scan' = scanEnter(csvText)
  /\ UNCHANGED <<grid, csvText>>
  /\ UNCHANGED notScan

\* one iteration of for (let i = 0; i < text.length; i++)
ScanChar ==
  /\ scan.pc = "loop"
  /\ scan.i <= Len(scan.text)
  /\ scan' = scanStep(scan)
  /\ UNCHANGED <<grid, csvText>>
  /\ UNCHANGED notScan

\* the loop has ended: the last cell and row are flushed, rows returned
ScanReturn ==
  /\ scan.pc = "loop"
  /\ scan.i > Len(scan.text)
  /\ scan' = scanFlush(scan)
  /\ UNCHANGED <<grid, csvText>>
  /\ UNCHANGED notScan

TokNext == ScanEnter \/ ScanChar \/ ScanReturn

TokSpec == TokInit /\ [][TokNext]_vars

\* ------------------------------------------------------------------------
\* parseCsvRows on any text, malformed quoting included
\* ------------------------------------------------------------------------
RawChars == {Quote, Comma, LF, CR, " ", "a", "b"}

\* every text of up to MaxChars characters
RawTexts == UNION {[1..n -> RawChars] : n \in 0..MaxChars}

\* a text has been read from a file, parseCsvRows has not been called
RawInit ==
  /\ grid = <<>>
  /\ csvText \in RawTexts
  /\ scan = scanIdle
  /\ NoParse
  /\ build = "services"
  /\ readings = <<>>
  /\ pc = "idle"
  /\ tariffIx = 0
  /\ i = 0
  /\ locals = freshLocals
  /\ ret = NoReturn
  /\ reentered = FALSE
  /\ PageIdle
  /\ GasIdle

\* parseCsvRows runs to its return once called: a synchronous loop
RawSpec == RawInit /\ [][TokNext]_vars /\ WF_vars(TokNext)

\* ------------------------------------------------------------------------
\* Strings and regular expressions
\* ------------------------------------------------------------------------
Digits == <<"0", "1", "2", "3", "4", "5", "6", "7", "8", "9">>
UpperCase == <<"A", "B", "C", "D", "E", "F", "G", "H", "I", "J", "K", "L", "M", "N", "O", "P", "Q", "R", "S", "T", "U", "V", "W", "X", "Y", "Z">>
LowerCase == <<"a", "b", "c", "d", "e", "f", "g", "h", "i", "j", "k", "l", "m", "n", "o", "p", "q", "r", "s", "t", "u", "v", "w", "x", "y", "z">>

indexIn(s, ch) == IF \E k \in 1..Len(s) : s[k] = ch
                  THEN CHOOSE k \in 1..Len(s) : s[k] = ch ELSE 0

\* \d
isDigit(ch) == indexIn(Digits, ch) /= 0

\* Number(s) of a string of digits
RECURSIVE digitsValue(_, _)
digitsValue(s, n) ==
  IF n = 0 THEN 0 ELSE digitsValue(s, n - 1) * 10 + (indexIn(Digits, s[n]) - 1)

allDigits(s) == \A k \in 1..Len(s) : isDigit(s[k])

\* String.prototype.toLowerCase
toLowerCase(s) ==
  [k \in 1..Len(s) |->
     IF indexIn(UpperCase, s[k]) /= 0 THEN LowerCase[indexIn(UpperCase, s[k])] ELSE s[k]]

\* String.prototype.trim
RECURSIVE trimStart(_)
trimStart(s) == IF s /= <<>> /\ isSpace(Head(s)) THEN trimStart(Tail(s)) ELSE s

RECURSIVE trimEnd(_)
trimEnd(s) ==
  IF s /= <<>> /\ isSpace(s[Len(s)]) THEN trimEnd(SubSeq(s, 1, Len(s) - 1)) ELSE s

trim(s) == trimEnd(trimStart(s))

\* /p/.test(s) for a pattern p of literal characters
contains(s, p) ==
  \E k \in 0..(Len(s) - Len(p)) : SubSeq(s, k + 1, k + Len(p)) = p

\* /p1|p2|.../.test(s)
containsAny(s, ps) == \E p \in ps : contains(s, p)

\* s.replace(/\s+/g, ' ')
RECURSIVE collapseSpaces(_)
collapseSpaces(s) ==
  IF s = <<>> THEN <<>>
  ELSE IF isSpace(Head(s))
       THEN <<" ">> \o collapseSpaces(trimStart(s))
  ELSE <<Head(s)>> \o collapseSpaces(Tail(s))

\* [a-z0-9 ]
isHeaderChar(ch) == indexIn(LowerCase, ch) /= 0 \/ isDigit(ch) \/ ch = " "

\* normalizeHeader: trimmed, lowercased, whitespace collapsed, brackets and
\* every character outside [a-z0-9 ] removed
normalizeHeader(value) ==
  SelectSeq(collapseSpaces(toLowerCase(trim(value))), isHeaderChar)

\* the pieces of s between the occurrences of the character sep
RECURSIVE split(_, _)
split(s, sep) ==
  IF indexIn(s, sep) = 0 THEN <<s>>
  ELSE <<SubSeq(s, 1, indexIn(s, sep) - 1)>>
       \o split(SubSeq(s, indexIn(s, sep) + 1, Len(s)), sep)

\* ------------------------------------------------------------------------
\* Field interpreters: parseNumber, parseTime, parseUsDate, parseDateTime,
\* parseSingleDateTimeField
\* ------------------------------------------------------------------------
\* the null an interpreter returns
NoValue == [ok |-> FALSE]

\* the length of the longest run of digits s starts with
RECURSIVE digitRun(_)
digitRun(s) == IF s /= <<>> /\ isDigit(Head(s)) THEN 1 + digitRun(Tail(s)) ELSE 0

RECURSIVE pow10(_)
pow10(n) == IF n = 0 THEN 1 ELSE 10 * pow10(n - 1)

\* where /-?\d+(?:\.\d+)?/ first matches in s: 0 for no match
firstNumberAt(s) ==
  LET starts(k) == \/ isDigit(s[k])
                   \/ s[k] = "-" /\ k < Len(s) /\ isDigit(s[k + 1])
  IN  IF \E k \in 1..Len(s) : starts(k)
      THEN CHOOSE k \in 1..Len(s) : starts(k) /\ \A j \in 1..(k - 1) : ~starts(j)
      ELSE 0

\* the number /-?\d+(?:\.\d+)?/ matches in cleaned from position at on
numberAt(cleaned, at) ==
  LET negative == cleaned[at] = "-"
      from == IF negative THEN at + 1 ELSE at
      whole == digitRun(SubSeq(cleaned, from, Len(cleaned)))
      rest == SubSeq(cleaned, from + whole, Len(cleaned))
      decimals == IF rest /= <<>> /\ Head(rest) = "." THEN digitRun(Tail(rest)) ELSE 0
      magnitude ==
        Rat(digitsValue(SubSeq(cleaned, from, from + whole - 1), whole) * pow10(decimals)
              + digitsValue(SubSeq(rest, 2, decimals + 1), decimals),
            pow10(decimals))
  IN  IF negative THEN RatSub(RatOfInt(0), magnitude) ELSE magnitude

\* what parseNumber returns for a blank cell or one without a number
noNumber == NoValue

\* parseNumber: thousands separators removed, the first signed decimal number
\* of the string, null when the string is blank or holds no number
parseNumber(value) ==
  LET cleaned == SelectSeq(trim(value), LAMBDA ch : ch /= Comma)
      at == firstNumberAt(cleaned)
  IN  IF at = 0 THEN noNumber ELSE [ok |-> TRUE, value |-> numberAt(cleaned, at)]

\* s starts with a colon and two digits: (?::(\d{2}))
colonPair(s) == Len(s) >= 3 /\ s[1] = ":" /\ isDigit(s[2]) /\ isDigit(s[3])

\* the two digits of the group (?::(\d{2}))? at the start of s, empty when
\* the group is absent
pairOf(s) == IF colonPair(s) THEN SubSeq(s, 2, 3) ELSE <<>>

\* what follows the group (?::(\d{2}))? at the start of s
afterPair(s) == IF colonPair(s) THEN SubSeq(s, 4, Len(s)) ELSE s

\* the groups of the match, given the hour digits, the minute digits, the
\* second digits and what follows them in lower case
timeGroups(hours, minutes, seconds, suffix) ==
  IF hours /= <<>> /\ suffix \in {<<>>, <<"a", "m">>, <<"p", "m">>}
  THEN [ok |-> TRUE, hours |-> hours, minutes |-> minutes, seconds |-> seconds,
        ampm |-> suffix]
  ELSE NoValue

\* the match from the minutes on: afterH is what follows the hour digits
timeAfterHours(hours, afterH) ==
  timeGroups(hours, pairOf(afterH), pairOf(afterPair(afterH)),
             toLowerCase(trim(afterPair(afterPair(afterH)))))

\* the match with an hour of the first h characters of t
timeWithHours(t, h) == timeAfterHours(SubSeq(t, 1, h), SubSeq(t, h + 1, Len(t)))

\* the match of /^(\d{1,2})(?::(\d{2}))?(?::(\d{2}))?\s*(am|pm)?\s*$/i on t:
\* the groups, an absent group empty, or NoValue
matchTime(t) == timeWithHours(t, IF digitRun(t) >= 2 THEN 2 ELSE digitRun(t))

\* mutation of clockTime: "pm" adds 12 to every hour, "am" leaves every
\* hour as written
clockTimeTwelveBlind(hours, minutes, seconds, ampm) ==
  IF minutes > 59 \/ seconds > 59 THEN NoValue
  ELSE IF hours > 24 THEN NoValue
  ELSE IF ampm /= <<>> /\ (hours < 1 \/ hours > 12) THEN NoValue
  ELSE [ok |-> TRUE,
        hours |-> IF ampm = <<"p", "m">> THEN hours + 12 ELSE hours,
        minutes |-> minutes,
        seconds |-> seconds]

\* the range checks of parseTime and its 12-hour clock, on the numbers of
\* the groups
clockTime(hours, minutes, seconds, ampm) ==
  IF minutes > 59 \/ seconds > 59 THEN NoValue
  ELSE IF hours > 24 THEN NoValue
  ELSE IF ampm /= <<>> /\ (hours < 1 \/ hours > 12) THEN NoValue
  ELSE [ok |-> TRUE,
        hours |-> IF ampm = <<"p", "m">> /\ hours /= 12 THEN hours + 12
                  ELSE IF ampm = <<"a", "m">> /\ hours = 12 THEN 0
                  ELSE hours,
        minutes |-> minutes,
        seconds |-> seconds]

\* Number(m[1]), Number(m[2] ?? '0'), Number(m[3] ?? '0') and m[4] of a
\* match m
timeOfMatch(m) ==
  IF ~m.ok THEN NoValue
  ELSE clockTime(digitsValue(m.hours, Len(m.hours)), digitsValue(m.minutes, Len(m.minutes)),
                 digitsValue(m.seconds, Len(m.seconds)), m.ampm)

\* parseTime: "HH:MM", "HH:MM:SS", "H:MM AM"
parseTime(timeRaw) ==
  IF trim(timeRaw) = <<>> THEN NoValue ELSE timeOfMatch(matchTime(trim(timeRaw)))

\* the numbers of three parts, each of them digits of a length in lens[k],
\* in the order year, month, day given by order; NoValue for other parts
patternParts(parts, lens, order) ==
  IF Len(parts) = 3
     /\ \A k \in 1..3 : allDigits(parts[k]) /\ Len(parts[k]) \in lens[k]
  THEN [ok |-> TRUE,
        year |-> digitsValue(parts[order[1]], Len(parts[order[1]])),
        month |-> digitsValue(parts[order[2]], Len(parts[order[2]])),
        day |-> digitsValue(parts[order[3]], Len(parts[order[3]]))]
  ELSE NoValue

\* the three parts of a date written with the separator sep; NoValue when
\* the text is not of that form
datePattern(d, sep, lens, order) == patternParts(split(d, sep), lens, order)

\* the range checks shared by the three forms of parseUsDate
dateParts(year, month, day) ==
  IF month - 1 < 0 \/ month - 1 > 11 THEN NoValue
  ELSE IF day < 1 \/ day > 31 THEN NoValue
  ELSE [ok |-> TRUE, year |-> year, monthIndex |-> month - 1, day |-> day]

\* the first of the three forms that matches d
usDateOf(d, iso, slash, dash) ==
  IF d = <<>> THEN NoValue
  ELSE IF iso.ok THEN dateParts(iso.year, iso.month, iso.day)
  ELSE IF slash.ok
       THEN dateParts(IF slash.year < 100 THEN slash.year + 2000 ELSE slash.year,
                      slash.month, slash.day)
  ELSE IF dash.ok THEN dateParts(dash.year, dash.month, dash.day)
  ELSE NoValue

\* parseUsDate: YYYY-MM-DD, then MM/DD/YYYY or M/D/YY, then MM-DD-YYYY
parseUsDate(dateRaw) ==
  usDateOf(trim(dateRaw),
           datePattern(trim(dateRaw), "-", <<{4}, {2}, {2}>>, <<1, 2, 3>>),
           datePattern(trim(dateRaw), "/", <<{1, 2}, {1, 2}, {2, 3, 4}>>, <<3, 1, 2>>),
           datePattern(trim(dateRaw), "-", <<{1, 2}, {1, 2}, {4}>>, <<3, 1, 2>>))

\* getTime of new Date(year, monthIndex, day, hours, minutes, seconds, 0) in
\* seconds, in a zone without clock changes: a day or an hour past the end
\* of its month or day carries over, a year 0..99 is of the 1900s
newDate(year, monthIndex, day, hours, minutes, seconds) ==
  LET fullYear == IF year >= 0 /\ year <= 99 THEN 1900 + year ELSE year
  IN  [ok |-> TRUE,
       time |-> ((daysFromCivil(fullYear, monthIndex + 1, 1) + (day - 1)) * 24 + hours) * 3600
                + minutes * 60 + seconds]

\* the Date of the date parts and the time of day, null without either
dateTimeOf(parts, parsedTime) ==
  IF ~parts.ok THEN NoValue
  ELSE IF ~parsedTime.ok THEN NoValue
  ELSE newDate(parts.year, parts.monthIndex, parts.day,
               parsedTime.hours, parsedTime.minutes, parsedTime.seconds)

Midnight == [ok |-> TRUE, hours |-> 0, minutes |-> 0, seconds |-> 0]

\* mutation of parseDateTime: the time of day is checked and left out
parseDateTimeMidnight(dateRaw, timeRaw) ==
  dateTimeOf(parseUsDate(dateRaw), IF parseTime(timeRaw).ok THEN Midnight ELSE NoValue)

\* parseDateTime(dateRaw, timeRaw); every call of the parsers passes timeRaw
parseDateTime(dateRaw, timeRaw) == dateTimeOf(parseUsDate(dateRaw), parseTime(timeRaw))

\* the first of two results that is not null
firstOk(a, b) == IF a.ok THEN a ELSE b

validDay(d) == d.month >= 1 /\ d.month <= 12 /\ d.day >= 1 /\ d.day <= 31

\* the Date of a calendar date d (month counted from 1) and a time of day t
dateAt(d, t) == newDate(d.year, d.month - 1, d.day, t.hours, t.minutes, t.seconds)

\* the time of day HH:MM or HH:MM:SS of an ISO text: m is its match, t its
\* value
isoTimeOf(m, t) ==
  IF m.ok /\ Len(m.hours) = 2 /\ Len(m.minutes) = 2 /\ m.ampm = <<>> /\ t.ok /\ t.hours <= 23
  THEN t ELSE NoValue

\* YYYY-MM-DD or YYYY-MM-DDTHH:MM(:SS): byT is the text split at T
isoParse(byT, isoDate, isoTime) ==
  IF Len(byT) = 1 /\ isoDate.ok /\ validDay(isoDate) THEN dateAt(isoDate, Midnight)
  ELSE IF Len(byT) = 2 /\ isoDate.ok /\ validDay(isoDate) /\ isoTime.ok
       THEN dateAt(isoDate, isoTime)
  ELSE NoValue

isoText(byT) ==
  isoParse(byT,
           datePattern(IF Len(byT) <= 2 THEN byT[1] ELSE <<>>, "-",
                       <<{4}, {2}, {2}>>, <<1, 2, 3>>),
           IF Len(byT) = 2 THEN isoTimeOf(matchTime(byT[2]), parseTime(byT[2])) ELSE NoValue)

\* M/D/YYYY, alone or followed by a time of day
lenientParse(usDate, usTime) ==
  IF usDate.ok /\ validDay(usDate) /\ usTime.ok /\ usTime.hours <= 23
  THEN dateAt(usDate, usTime) ELSE NoValue

\* space is the place of the first blank of s, 0 for none
lenientText(s, space) ==
  lenientParse(datePattern(IF space = 0 THEN s ELSE SubSeq(s, 1, space - 1), "/",
                           <<{1, 2}, {1, 2}, {4}>>, <<3, 1, 2>>),
               IF space = 0 THEN Midnight ELSE parseTime(SubSeq(s, space + 1, Len(s))))

\* new Date(s) for a text s. The ISO forms YYYY-MM-DD and YYYY-MM-DDTHH:MM
\* (:SS) are read by every engine; what an engine makes of any other text is
\* implementation-defined: a "strict" engine returns an invalid date, a
\* "lenient" one reads M/D/YYYY, alone or followed by a time of day.
dateParse(eng, s) ==
  firstOk(isoText(split(s, "T")),
          IF eng = "lenient" THEN lenientText(s, indexIn(s, " ")) ELSE NoValue)

\* the match of /^(.+?)\s+(\d{1,2}(:\d{2})?(:\d{2})?\s*(am|pm)?)$/i on s:
\* where the white space before the time token starts, 0 for no match
timeTokenAt(s) ==
  LET splits(k) == /\ k >= 2
                   /\ isSpace(s[k])
                   /\ matchTime(trimStart(SubSeq(s, k, Len(s)))).ok
  IN  IF \E k \in 1..Len(s) : splits(k)
      THEN CHOOSE k \in 1..Len(s) : splits(k) /\ \A j \in 1..(k - 1) : ~splits(j)
      ELSE 0

\* the second attempt of parseSingleDateTimeField: the date and the time
\* token that starts behind position at of s
dateTimeAtToken(s, at) ==
  IF at /= 0
  THEN parseDateTime(SubSeq(s, 1, at - 1), trimStart(SubSeq(s, at, Len(s))))
  ELSE NoValue

singleDateTime(eng, s) ==
  IF s = <<>> THEN NoValue
  ELSE firstOk(dateParse(eng, s), dateTimeAtToken(s, timeTokenAt(s)))

\* parseSingleDateTimeField: the native parse first, then date and time token
parseSingleDateTimeField(eng, raw) == singleDateTime(eng, trim(raw))

\* ------------------------------------------------------------------------
\* Header detection and column resolution
\* ------------------------------------------------------------------------
\* the parser applied: parsePgeIntervalCsv or parsePgeGasCsv
Parsers == {"electricity", "gas"}

\* the unit keyword of the parser's regular expressions
unitKeyword(which) == IF which = "electricity" THEN <<"k", "w", "h">> ELSE <<"t", "h", "e", "r", "m">>

\* the least score detectHeaderRowIndex accepts
minHeaderScore(which) == IF which = "electricity" THEN 4 ELSE 3

\* the interval an end timestamp is moved back by, in seconds
nominalInterval(which) == IF which = "electricity" THEN 15 * 60 ELSE 60 * 60

\* how many rows detectHeaderRowIndex scans
MaxScan == 80

UsageNouns == {<<"u", "s", "a", "g", "e">>, <<"c", "o", "n", "s", "u", "m", "p", "t", "i", "o", "n">>, <<"q", "u", "a", "n", "t", "i", "t", "y">>, <<"v", "a", "l", "u", "e">>}
CostWords == {<<"c", "o", "s", "t">>, <<"p", "r", "i", "c", "e">>, <<"r", "a", "t", "e">>, <<"c", "h", "a", "r", "g", "e">>, <<"d", "o", "l", "l", "a", "r">>, <<"$">>}

\* row.join(' | ')
RECURSIVE joinCells(_, _)
joinCells(row, n) ==
  IF n = 0 THEN <<>>
  ELSE IF n = 1 THEN row[1]
  ELSE joinCells(row, n - 1) \o <<" ", "|", " ">> \o row[n]

scoreHeaderRow(which, row) ==
  LET joined == joinCells([k \in 1..Len(row) |-> toLowerCase(row[k])], Len(row))
  IN  (IF contains(joined, unitKeyword(which)) THEN 3 ELSE 0)
      + (IF containsAny(joined, UsageNouns) THEN 2 ELSE 0)
      + (IF containsAny(joined, {<<"s", "t", "a", "r", "t">>, <<"e", "n", "d">>, <<"i", "n", "t", "e", "r", "v", "a", "l">>}) THEN 2 ELSE 0)
      + (IF containsAny(joined, {<<"d", "a", "t", "e">>, <<"t", "i", "m", "e">>}) THEN 1 ELSE 0)

\* row.map(v => String(v ?? '').trim()).filter(Boolean).length
nonEmptyCells(row) == Len(SelectSeq(row, LAMBDA c : trim(c) /= <<>>))

\* mutation of betterScore: a later row of the same score replaces the best
betterOrEqualScore(score, bestScore) == score >= bestScore

\* score > bestScore
betterScore(score, bestScore) == score > bestScore

\* the body of the loop of detectHeaderRowIndex for row k (rows are counted
\* from 1)
detectRow(which, rows, k, best) ==
  LET row == [c \in 1..Len(rows[k]) |-> trim(rows[k][c])]
      score == scoreHeaderRow(which, row)
  IN  IF nonEmptyCells(row) < 3 THEN best
      ELSE IF betterScore(score, best.bestScore) THEN [bestIdx |-> k, bestScore |-> score]
      ELSE best

\* the loop of detectHeaderRowIndex over the rows from..to, in order: the
\* rows from..mid are done, with the result half, before mid + 1 is entered
RECURSIVE detectRows(_, _, _, _, _)
detectRows(which, rows, from, to, best) ==
  IF from > to THEN best
  ELSE IF from = to THEN detectRow(which, rows, from, best)
  ELSE LET mid == (from + to) \div 2
       IN  CHOOSE r \in {detectRows(which, rows, mid + 1, to, half)
                         : half \in {detectRows(which, rows, from, mid, best)}} : TRUE

\* detectHeaderRowIndex: the index of the header row, counted from 1; 0 is
\* the -1 of the code
detectHeaderRowIndex(which, rows) ==
  LET maxScan == IF Len(rows) < MaxScan THEN Len(rows) ELSE MaxScan
      best == detectRows(which, rows, 1, maxScan, [bestIdx |-> 0, bestScore |-> 0])
  IN  IF best.bestScore >= minHeaderScore(which) THEN best.bestIdx ELSE 0

\* headers.findIndex(predicate), counted from 1; 0 is the -1 of the code
findHeader(headers, predicate(_)) ==
  IF \E k \in 1..Len(headers) : predicate(headers[k])
  THEN CHOOSE k \in 1..Len(headers) :
         predicate(headers[k]) /\ \A j \in 1..(k - 1) : ~predicate(headers[j])
  ELSE 0

\* the column indexes parsePgeIntervalCsv / parsePgeGasCsv resolve
resolveColumns(which, headers) ==
  LET unit == unitKeyword(which)
      importIdx == findHeader(headers, LAMBDA h : contains(h, <<"i", "m", "p", "o", "r", "t">>) /\ contains(h, unit))
      exportIdx == findHeader(headers, LAMBDA h : contains(h, <<"e", "x", "p", "o", "r", "t">>) /\ contains(h, unit))
      hasSolarColumns == which = "electricity" /\ importIdx /= 0 /\ exportIdx /= 0
      nouns == IF which = "electricity" THEN UsageNouns \cup {<<"i", "n", "t", "e", "r", "v", "a", "l">>} ELSE UsageNouns
      byNoun == findHeader(headers, LAMBDA h : contains(h, unit) /\ containsAny(h, nouns))
      byUnit == findHeader(headers, LAMBDA h : contains(h, unit) /\ ~containsAny(h, CostWords))
  IN  [importIdx |-> IF which = "electricity" THEN importIdx ELSE 0,
       exportIdx |-> IF which = "electricity" THEN exportIdx ELSE 0,
       hasSolarColumns |-> hasSolarColumns,
       usageIdx |-> IF hasSolarColumns THEN importIdx
                    ELSE IF byNoun /= 0 THEN byNoun ELSE byUnit,
       startDateIdx |-> findHeader(headers, LAMBDA h : containsAny(h,
           {<<"s", "t", "a", "r", "t", " ", "d", "a", "t", "e">>, <<"i", "n", "t", "e", "r", "v", "a", "l", " ", "s", "t", "a", "r", "t", " ", "d", "a", "t", "e">>, <<"u", "s", "a", "g", "e", " ", "s", "t", "a", "r", "t", " ", "d", "a", "t", "e">>, <<"f", "r", "o", "m", " ", "d", "a", "t", "e">>})),
       startTimeIdx |-> findHeader(headers, LAMBDA h : containsAny(h,
           {<<"s", "t", "a", "r", "t", " ", "t", "i", "m", "e">>, <<"i", "n", "t", "e", "r", "v", "a", "l", " ", "s", "t", "a", "r", "t", " ", "t", "i", "m", "e">>, <<"u", "s", "a", "g", "e", " ", "s", "t", "a", "r", "t", " ", "t", "i", "m", "e">>, <<"f", "r", "o", "m", " ", "t", "i", "m", "e">>})),
       endDateIdx |-> findHeader(headers, LAMBDA h : containsAny(h,
           {<<"e", "n", "d", " ", "d", "a", "t", "e">>, <<"i", "n", "t", "e", "r", "v", "a", "l", " ", "e", "n", "d", " ", "d", "a", "t", "e">>, <<"u", "s", "a", "g", "e", " ", "e", "n", "d", " ", "d", "a", "t", "e">>, <<"t", "o", " ", "d", "a", "t", "e">>})),
       endTimeIdx |-> findHeader(headers, LAMBDA h : containsAny(h,
           {<<"e", "n", "d", " ", "t", "i", "m", "e">>, <<"i", "n", "t", "e", "r", "v", "a", "l", " ", "e", "n", "d", " ", "t", "i", "m", "e">>, <<"u", "s", "a", "g", "e", " ", "e", "n", "d", " ", "t", "i", "m", "e">>, <<"t", "o", " ", "t", "i", "m", "e">>})),
       startDateTimeIdx |-> findHeader(headers, LAMBDA h : containsAny(h,
           {<<"i", "n", "t", "e", "r", "v", "a", "l", " ", "s", "t", "a", "r", "t">>, <<"s", "t", "a", "r", "t", " ", "d", "a", "t", "e", "t", "i", "m", "e">>, <<"s", "t", "a", "r", "t", " ", "d", "a", "t", "e", " ", "t", "i", "m", "e">>})),
       endDateTimeIdx |-> findHeader(headers, LAMBDA h : containsAny(h,
           {<<"i", "n", "t", "e", "r", "v", "a", "l", " ", "e", "n", "d">>, <<"e", "n", "d", " ", "d", "a", "t", "e", "t", "i", "m", "e">>, <<"e", "n", "d", " ", "d", "a", "t", "e", " ", "t", "i", "m", "e">>})),
       dateIdx |-> findHeader(headers, LAMBDA h :
           h = <<"d", "a", "t", "e">> \/ containsAny(h, {<<"r", "e", "a", "d", "i", "n", "g", " ", "d", "a", "t", "e">>, <<"u", "s", "a", "g", "e", " ", "d", "a", "t", "e">>})),
       timeIdx |-> findHeader(headers, LAMBDA h :
           h = <<"t", "i", "m", "e">> \/ contains(h, <<"r", "e", "a", "d", "i", "n", "g", " ", "t", "i", "m", "e">>))]

\* ------------------------------------------------------------------------
\* One data row
\* ------------------------------------------------------------------------
\* String(row[idx] ?? ''): a cell the row does not have reads as empty
cellAt(row, idx) == IF idx >= 1 /\ idx <= Len(row) THEN row[idx] ELSE <<>>

\* parseNumber(...) ?? 0
orZero(n) == IF n.ok THEN n.value ELSE RatOfInt(0)

\* mutation of netUsage: the export is added
netUsageAdded(importKwh, exportKwh) == RatAdd(importKwh, exportKwh)

\* importKwh - exportKwh
netUsage(importKwh, exportKwh) == RatSub(importKwh, exportKwh)

\* the usage of a row: NET usage with solar columns, else the usage column
rowUsage(cols, row) ==
  IF cols.hasSolarColumns
  THEN [ok |-> TRUE,
        value |-> netUsage(orZero(parseNumber(cellAt(row, cols.importIdx))),
                           orZero(parseNumber(cellAt(row, cols.exportIdx))))]
  ELSE parseNumber(cellAt(row, cols.usageIdx))

\* new Date(end.getTime() - interval)
minusInterval(end, which) ==
  IF end.ok THEN [ok |-> TRUE, time |-> end.time - nominalInterval(which)] ELSE NoValue

\* the seven timestamp strategies of a row, in the order the code tries
\* them: NoValue for a strategy whose columns are missing or that fails
strategies(which, eng, cols, row) ==
  << IF cols.startDateTimeIdx /= 0
     THEN parseSingleDateTimeField(eng, cellAt(row, cols.startDateTimeIdx)) ELSE NoValue,
     IF cols.startDateIdx /= 0 /\ cols.startTimeIdx /= 0
     THEN parseDateTime(cellAt(row, cols.startDateIdx), cellAt(row, cols.startTimeIdx))
     ELSE NoValue,
     IF cols.dateIdx /= 0 /\ cols.timeIdx /= 0
     THEN parseDateTime(cellAt(row, cols.dateIdx), cellAt(row, cols.timeIdx)) ELSE NoValue,
     IF cols.dateIdx /= 0 /\ cols.startTimeIdx /= 0
     THEN parseDateTime(cellAt(row, cols.dateIdx), cellAt(row, cols.startTimeIdx))
     ELSE NoValue,
     IF cols.dateIdx /= 0
     THEN parseSingleDateTimeField(eng, cellAt(row, cols.dateIdx)) ELSE NoValue,
     IF cols.endDateTimeIdx /= 0
     THEN minusInterval(parseSingleDateTimeField(eng, cellAt(row, cols.endDateTimeIdx)),
                        which)
     ELSE NoValue,
     IF cols.endDateIdx /= 0 /\ cols.endTimeIdx /= 0
     THEN minusInterval(parseDateTime(cellAt(row, cols.endDateIdx),
                                      cellAt(row, cols.endTimeIdx)), which)
     ELSE NoValue >>

\* mutation of firstSuccess: the last strategy that succeeds is taken
lastSuccess(tried) ==
  IF \E k \in 1..Len(tried) : tried[k].ok
  THEN tried[CHOOSE k \in 1..Len(tried) :
               tried[k].ok /\ \A j \in (k + 1)..Len(tried) : ~tried[j].ok]
  ELSE NoValue

\* the chain of "if (!ts && ...) ts = ...": the first strategy that succeeds
firstSuccess(tried) ==
  IF \E k \in 1..Len(tried) : tried[k].ok
  THEN tried[CHOOSE k \in 1..Len(tried) : tried[k].ok /\ \A j \in 1..(k - 1) : ~tried[j].ok]
  ELSE NoValue

rowTimestamp(which, eng, cols, row) == firstSuccess(strategies(which, eng, cols, row))

\* ------------------------------------------------------------------------
\* Normalization and warnings
\* ------------------------------------------------------------------------
\* readings.sort((a, b) => a.timestamp.getTime() - b.timestamp.getTime())
RECURSIVE insertByTime(_, _)
insertByTime(sorted, r) ==
  IF sorted = <<>> THEN <<r>>
  ELSE IF r.timestamp < Head(sorted).timestamp THEN <<r>> \o sorted
  ELSE <<Head(sorted)>> \o insertByTime(Tail(sorted), r)

RECURSIVE sortByTime(_, _)
sortByTime(rs, n) ==
  IF n = 0 THEN <<>> ELSE insertByTime(sortByTime(rs, n - 1), rs[n])

\* mutation of mergeInto: a reading of a timestamp already seen replaces the
\* value held for it
mergeIntoLastWins(summed, r) ==
  IF summed /= <<>> /\ summed[Len(summed)].timestamp = r.timestamp
  THEN [summed EXCEPT ![Len(summed)].value = r.value]
  ELSE Append(summed, r)

\* summed.set(key, (summed.get(key) ?? 0) + r.value), for readings that come
\* in the order of their timestamps
mergeInto(summed, r) ==
  IF summed /= <<>> /\ summed[Len(summed)].timestamp = r.timestamp
  THEN [summed EXCEPT ![Len(summed)].value = RatAdd(@, r.value)]
  ELSE Append(summed, r)

RECURSIVE mergeSorted(_, _)
mergeSorted(rs, n) ==
  IF n = 0 THEN <<>> ELSE mergeInto(mergeSorted(rs, n - 1), rs[n])

\* "Sort + de-duplicate timestamps"
normalizeReadings(rs) ==
  LET sorted == sortByTime(rs, Len(rs))
      summed == mergeSorted(sorted, Len(sorted))
  IN  sortByTime(summed, Len(summed))

\* how many readings the interval heuristic looks at
IntervalScan(which) == IF which = "electricity" THEN 2000 ELSE 500

\* diffs.sort((a, b) => a - b)
RECURSIVE insertNumber(_, _)
insertNumber(sorted, x) ==
  IF sorted = <<>> THEN <<x>>
  ELSE IF x < Head(sorted) THEN <<x>> \o sorted
  ELSE <<Head(sorted)>> \o insertNumber(Tail(sorted), x)

RECURSIVE sortNumbers(_, _)
sortNumbers(xs, n) ==
  IF n = 0 THEN <<>> ELSE insertNumber(sortNumbers(xs, n - 1), xs[n])

\* mutation of intervalWarning: of an even number of differences the lower
\* of the two middle ones is taken
intervalWarningLowerMedian(which, normalized) ==
  IF Len(normalized) < 3 THEN <<>>
  ELSE
    LET upTo == IF Len(normalized) < IntervalScan(which)
                THEN Len(normalized) ELSE IntervalScan(which)
        diffs == [k \in 1..(upTo - 1) |->
                    normalized[k + 1].timestamp - normalized[k].timestamp]
        sorted == sortNumbers(diffs, Len(diffs))
        median == sorted[(Len(sorted) + 1) \div 2]
        minutes == (median + 30) \div 60
        hours == (median + 1800) \div 3600
    IN  IF which = "electricity"
        THEN IF minutes \in {15, 30, 60} THEN <<>>
             ELSE <<[kind |-> "interval", detected |-> minutes]>>
        ELSE IF hours = 1 \/ hours = 24 THEN <<>>
             ELSE <<[kind |-> "interval", detected |-> hours]>>

\* the warning of the interval heuristic (a sequence of none or one);
\* Math.round of a non-negative quotient
intervalWarning(which, normalized) ==
  IF Len(normalized) < 3 THEN <<>>
  ELSE
    LET upTo == IF Len(normalized) < IntervalScan(which)
                THEN Len(normalized) ELSE IntervalScan(which)
        diffs == [k \in 1..(upTo - 1) |->
                    normalized[k + 1].timestamp - normalized[k].timestamp]
        sorted == sortNumbers(diffs, Len(diffs))
        median == sorted[(Len(sorted) \div 2) + 1]
        minutes == (median + 30) \div 60
        hours == (median + 1800) \div 3600
    IN  IF which = "electricity"
        THEN IF minutes \in {15, 30, 60} THEN <<>>
             ELSE <<[kind |-> "interval", detected |-> minutes]>>
        ELSE IF hours = 1 \/ hours = 24 THEN <<>>
             ELSE <<[kind |-> "interval", detected |-> hours]>>

\* the warning of the skipped rows (a sequence of none or one)
skippedWarning(skipped) ==
  IF skipped > 0 THEN <<[kind |-> "skipped", count |-> skipped]>> ELSE <<>>

\* ------------------------------------------------------------------------
\* parsePgeIntervalCsv / parsePgeGasCsv, step by step
\* ------------------------------------------------------------------------
\* the locals of a parser before it is called
parseIdle == [pc |-> "idle"]

NoOutcome == [kind |-> "none"]

\* throw new Error(...)
Thrown(err) == [kind |-> "error", error |-> err]

\* .filter(r => r.some(cell => String(cell ?? '').trim() !== ''))
rowsFilter(rows) == SelectSeq(rows, LAMBDA r : \E k \in 1..Len(r) : nonBlank(r[k]))

\* mutation of tooFewRows: a file of one row is read on
tooFewRowsOne(rows) == Len(rows) < 1

\* if (rows.length < 2)
tooFewRows(rows) == Len(rows) < 2

\* from the entry of the parser to the loop over the data rows, or to the
\* first fatal error
parseEnter(which, txt) ==
  LET rows == rowsFilter(parseCsvRows(txt))
      headerIdx == detectHeaderRowIndex(which, rows)
      headers == [k \in 1..Len(rows[headerIdx]) |-> normalizeHeader(trim(rows[headerIdx][k]))]
      cols == resolveColumns(which, headers)
  IN  IF tooFewRows(rows) THEN [pc |-> "done", outcome |-> Thrown("empty")]
      ELSE IF headerIdx = 0 THEN [pc |-> "done", outcome |-> Thrown("no-header")]
      ELSE IF cols.usageIdx = 0 THEN [pc |-> "done", outcome |-> Thrown("no-usage-column")]
      ELSE [pc |-> "rows", rows |-> rows, headerIdx |-> headerIdx, cols |-> cols,
            k |-> headerIdx + 1, readings |-> <<>>, skipped |-> 0,
            warnings |-> IF cols.hasSolarColumns THEN <<[kind |-> "net-usage"]>> ELSE <<>>,
            kwh |-> NoValue, ts |-> NoValue]

\* one iteration of the loop over the data rows
parseRow(which, eng, st) ==
  LET row == st.rows[st.k]
      kwh == rowUsage(st.cols, row)
      ts == IF kwh.ok THEN rowTimestamp(which, eng, st.cols, row) ELSE NoValue
  IN  IF ~kwh.ok \/ ~ts.ok
      THEN [st EXCEPT !.k = st.k + 1, !.skipped = st.skipped + 1, !.kwh = kwh, !.ts = ts]
      ELSE [st EXCEPT !.k = st.k + 1, !.kwh = kwh, !.ts = ts,
                      !.readings = Append(st.readings,
                                          [timestamp |-> ts.time, value |-> kwh.value])]

\* from the end of the loop to the return or the last fatal error
parseFinish(which, st) ==
  IF Len(st.readings) = 0 THEN Thrown("no-readings")
  ELSE
    LET normalized == normalizeReadings(st.readings)
    IN  [kind |-> "result",
         readings |-> normalized,
         warnings |-> st.warnings \o skippedWarning(st.skipped)
                      \o intervalWarning(which, normalized)]

\* ------------------------------------------------------------------------
\* Files handed to the parsers
\* ------------------------------------------------------------------------
Col(title, field) == [title |-> title, field |-> field]

\* header rows: the title of each column and the field of a data row it holds
Headers ==
  << \* 1: start date and start time
     << Col(<<"S", "t", "a", "r", "t", " ", "D", "a", "t", "e">>, "date"), Col(<<"S", "t", "a", "r", "t", " ", "T", "i", "m", "e">>, "time"),
        Col(<<"U", "s", "a", "g", "e", " ", "(", "k", "W", "h", ")">>, "usage") >>,
     \* 2: a solar export: import and export columns, date and start time
     << Col(<<"D", "A", "T", "E">>, "date"), Col(<<"S", "T", "A", "R", "T", " ", "T", "I", "M", "E">>, "time"),
        Col(<<"I", "M", "P", "O", "R", "T", " ", "(", "k", "W", "h", ")">>, "usage"), Col(<<"E", "X", "P", "O", "R", "T", " ", "(", "k", "W", "h", ")">>, "export") >>,
     \* 3: combined start and end timestamps
     << Col(<<"I", "n", "t", "e", "r", "v", "a", "l", " ", "S", "t", "a", "r", "t">>, "start"), Col(<<"I", "n", "t", "e", "r", "v", "a", "l", " ", "E", "n", "d">>, "end"),
        Col(<<"k", "W", "h">>, "usage") >>,
     \* 4: generic date and time, and a cost column
     << Col(<<"D", "a", "t", "e">>, "date"), Col(<<"T", "i", "m", "e">>, "time"),
        Col(<<"U", "s", "a", "g", "e", " ", "(", "k", "W", "h", ")">>, "usage"), Col(<<"C", "o", "s", "t", " ", "(", "$", ")">>, "cost") >>,
     \* 5: end date and end time only
     << Col(<<"E", "n", "d", " ", "D", "a", "t", "e">>, "date"), Col(<<"E", "n", "d", " ", "T", "i", "m", "e">>, "endTime"),
        Col(<<"U", "s", "a", "g", "e", " ", "(", "k", "W", "h", ")">>, "usage") >>,
     \* 6: the unit only in a cost column
     << Col(<<"D", "a", "t", "e">>, "date"), Col(<<"T", "i", "m", "e">>, "time"), Col(<<"C", "o", "s", "t", " ", "p", "e", "r", " ", "k", "W", "h">>, "cost") >>,
     \* 7: two columns only
     << Col(<<"D", "a", "t", "e">>, "start"), Col(<<"U", "s", "a", "g", "e", " ", "(", "k", "W", "h", ")">>, "usage") >>,
     \* 8: an import column without an export column
     << Col(<<"D", "A", "T", "E">>, "date"), Col(<<"S", "T", "A", "R", "T", " ", "T", "I", "M", "E">>, "time"),
        Col(<<"I", "M", "P", "O", "R", "T", " ", "(", "k", "W", "h", ")">>, "usage"), Col(<<"C", "O", "S", "T">>, "cost") >>,
     \* 9: a date column holding the full timestamp, end date and end time
     << Col(<<"D", "a", "t", "e">>, "start"), Col(<<"T", "o", " ", "D", "a", "t", "e">>, "date"), Col(<<"T", "o", " ", "T", "i", "m", "e">>, "endTime"),
        Col(<<"U", "s", "a", "g", "e", " ", "(", "k", "W", "h", ")">>, "usage") >>,
     \* 10: gas, start date and start time
     << Col(<<"S", "t", "a", "r", "t", " ", "D", "a", "t", "e">>, "date"), Col(<<"S", "t", "a", "r", "t", " ", "T", "i", "m", "e">>, "time"),
        Col(<<"U", "s", "a", "g", "e", " ", "(", "t", "h", "e", "r", "m", "s", ")">>, "usage") >>,
     \* 11: gas, a combined end timestamp
     << Col(<<"I", "n", "t", "e", "r", "v", "a", "l", " ", "E", "n", "d">>, "end"), Col(<<"T", "h", "e", "r", "m", "s">>, "usage"), Col(<<"N", "o", "t", "e">>, "cost") >>,
     \* 12: a usage noun and a date, no unit
     << Col(<<"D", "a", "t", "e">>, "start"), Col(<<"V", "a", "l", "u", "e">>, "usage"), Col(<<"N", "o", "t", "e">>, "cost") >> >>

\* data rows, field by field
DataRows ==
  << \* 1: the 00:15 interval of 18 January 2025
     [date |-> <<"0", "1", "/", "1", "8", "/", "2", "0", "2", "5">>, time |-> <<"0", "0", ":", "1", "5">>, endTime |-> <<"0", "0", ":", "3", "0">>,
      start |-> <<"0", "1", "/", "1", "8", "/", "2", "0", "2", "5", " ", "0", "0", ":", "1", "5">>, end |-> <<"0", "1", "/", "1", "8", "/", "2", "0", "2", "5", " ", "0", "0", ":", "3", "0">>,
      usage |-> <<"2", ".", "0">>, export |-> <<"0", ".", "5">>, cost |-> <<"$", "0", ".", "7", "0">>],
     \* 2: the same start again with a later end, more exported than imported
     [date |-> <<"0", "1", "/", "1", "8", "/", "2", "0", "2", "5">>, time |-> <<"0", "0", ":", "1", "5">>, endTime |-> <<"0", "1", ":", "0", "0">>,
      start |-> <<"0", "1", "/", "1", "8", "/", "2", "0", "2", "5", " ", "0", "0", ":", "1", "5">>, end |-> <<"0", "1", "/", "1", "8", "/", "2", "0", "2", "5", " ", "0", "1", ":", "0", "0">>,
      usage |-> <<"1", ".", "2", "3", "4">>, export |-> <<"2", ".", "5">>, cost |-> <<"$", "0", ".", "4", "5">>],
     \* 3: an earlier interval in other notations, a usage of zero, no end
     [date |-> <<"1", "/", "1", "7", "/", "2", "5">>, time |-> <<"1", "1", ":", "4", "5", " ", "P", "M">>, endTime |-> <<"2", "4", ":", "0", "0">>,
      start |-> <<"2", "0", "2", "5", "-", "0", "1", "-", "1", "7", "T", "2", "3", ":", "4", "5">>, end |-> <<"T", "o", "t", "a", "l">>,
      usage |-> <<"0">>, export |-> <<>>, cost |-> <<>>],
     \* 4: no usage
     [date |-> <<"0", "1", "/", "1", "8", "/", "2", "0", "2", "5">>, time |-> <<"0", "1", ":", "0", "0">>, endTime |-> <<"0", "1", ":", "1", "5">>,
      start |-> <<"0", "1", "/", "1", "8", "/", "2", "0", "2", "5", " ", "0", "1", ":", "0", "0">>, end |-> <<"0", "1", "/", "1", "8", "/", "2", "0", "2", "5", " ", "0", "1", ":", "1", "5">>,
      usage |-> <<>>, export |-> <<"0", ".", "5">>, cost |-> <<"n", "/", "a">>],
     \* 5: date, time and start out of range or not a timestamp, an end given
     [date |-> <<"1", "3", "/", "4", "5", "/", "2", "0", "2", "5">>, time |-> <<"7", ":", "6", "0">>, endTime |-> <<"0", "0", ":", "4", "5">>,
      start |-> <<"T", "o", "t", "a", "l">>, end |-> <<"0", "1", "/", "1", "8", "/", "2", "0", "2", "5", " ", "0", "0", ":", "4", "5">>,
      usage |-> <<"1", ",", "2", "3", "4", ".", "5", " ", "k", "W", "h">>, export |-> <<"x">>, cost |-> <<"$", "9">>],
     \* 6: a date without a time of day
     [date |-> <<"0", "1", "/", "1", "8", "/", "2", "0", "2", "5">>, time |-> <<>>, endTime |-> <<>>,
      start |-> <<"0", "1", "/", "1", "8", "/", "2", "0", "2", "5">>, end |-> <<>>,
      usage |-> <<"5">>, export |-> <<"1">>, cost |-> <<>>] >>

titlesOf(header) == [c \in 1..Len(header) |-> header[c].title]

cellsOf(header, data) == [c \in 1..Len(header) |-> data[header[c].field]]

\* n rows of the single cell x
fillerRows(n) == [r \in 1..n |-> << <<"x">> >>]

\* what precedes the header row: an account line and an empty line; the
\* header row itself once more
shortPreambles(header) ==
  { << << <<"N", "a", "m", "e">>, <<"J", "a", "n", "e", " ", "D", "o", "e">> >>, << <<>>, <<>> >> >>,
    << titlesOf(header) >> }

\* preambles that put the header row at the end of the scanned rows and
\* just behind them
longPreambles == {fillerRows(MaxScan - 1), fillerRows(MaxScan)}

\* the headers written behind a preamble: one of each parser
PreambleHeaders == {1, 10}

\* the lists of 0..n data rows
dataLists(n) == UNION {[1..m -> 1..Len(DataRows)] : m \in 0..n}

fileGrid(preamble, header, rowIxs) ==
  preamble \o << titlesOf(header) >>
  \o [r \in 1..Len(rowIxs) |-> cellsOf(header, DataRows[rowIxs[r]])]

\* the grids of the files: every header in the first row with up to MaxRows
\* data rows, the headers of PreambleHeaders behind the short preambles and
\* the first header behind the long preambles with at most one data row
CsvGrids ==
  UNION {{fileGrid(<<>>, Headers[h], rowIxs) : rowIxs \in dataLists(MaxRows)}
         : h \in 1..Len(Headers)}
  \cup UNION {UNION {{fileGrid(pre, Headers[h], rowIxs) : pre \in shortPreambles(Headers[h])}
                     : rowIxs \in dataLists(1)}
              : h \in PreambleHeaders}
  \cup UNION {{fileGrid(pre, Headers[1], rowIxs) : pre \in longPreambles}
              : rowIxs \in dataLists(1)}

Engines == {"strict", "lenient"}

\* the variables the parsers do not touch
notParse == <<build, readings, pc, tariffIx, i, locals, ret, reentered, gasVars,
             pageVars>>

\* a file has been read as text, no parser has been called
CsvInit ==
  /\ grid \in CsvGrids
  /\ csvText = writeCsv(grid, Len(grid), <<LF>>)
  /\ scan = [pc |-> "idle"]
  /\ parser \in Parsers
  /\ engine \in Engines
  /\ parse = parseIdle
  /\ outcome = NoOutcome
  /\ build = "services"
  /\ readings = <<>>
  /\ pc = "idle"
  /\ tariffIx = 0
  /\ i = 0
  /\ locals = freshLocals
  /\ ret = NoReturn
  /\ reentered = FALSE
  /\ PageIdle
  /\ GasIdle

\* the parser is entered: rows, header row and columns, or a fatal error
ParseEnter ==
  /\ parse.pc = "idle"
  /\ LET st == parseEnter(parser, csvText)
     IN  IF st.pc = "done"
         THEN parse' = [pc |-> "done"] /\ outcome' = st.outcome
         ELSE parse' = st /\ UNCHANGED outcome
  /\ UNCHANGED <<grid, csvText, scan, parser, engine>>
  /\ UNCHANGED notParse

\* one iteration of for (let i = headerIdx + 1; i < rows.length; i++)
ParseRow ==
  /\ parse.pc = "rows"
  /\ parse.k <= Len(parse.rows)
  /\ parse' = parseRow(parser, engine, parse)
  /\ UNCHANGED <<grid, csvText, scan, parser, engine, outcome>>
  /\ UNCHANGED notParse

\* the loop has ended: the fatal error of no readings, or the result
ParseFinish ==
  /\ parse.pc = "rows"
  /\ parse.k > Len(parse.rows)
  /\ outcome' = parseFinish(parser, parse)
  /\ parse' = [parse EXCEPT !.pc = "done"]
  /\ UNCHANGED <<grid, csvText, scan, parser, engine>>
  /\ UNCHANGED notParse

CsvNext == ParseEnter \/ ParseRow \/ ParseFinish

CsvSpec == CsvInit /\ [][CsvNext]_vars

\* ------------------------------------------------------------------------
\* parseTime on its own
\* ------------------------------------------------------------------------
\* the hours, minutes and seconds a time text is written with
WrittenHours == {0, 1, 9, 11, 12, 13, 23, 24, 25, 99}
WrittenMinutes == {0, 30, 59, 60, 99}
WrittenSeconds == {0, 59, 60}

\* the spellings of the suffix: none, and the two suffixes in three casings
Suffixes ==
  { <<>>, <<"A", "M">>, <<"a", "m">>, <<"P", "M">>, <<"p", "m">>, <<"P", "m">> }

\* a number below 100 in two digits, and in as many digits as it needs
twoDigits(n) == <<Digits[(n \div 10) + 1], Digits[(n % 10) + 1]>>
plainDigits(n) == IF n < 10 THEN <<Digits[n + 1]>> ELSE twoDigits(n)

\* the times that are written: which of minutes and seconds are there
\* (parts = 1, 2, 3 for H, H:MM, H:MM:SS), whether the hour is padded and
\* whether a blank stands before the suffix
WrittenTimes ==
  { w \in [ok : {TRUE}, hours : WrittenHours, minutes : WrittenMinutes, seconds : WrittenSeconds,
           parts : 1..3, padded : BOOLEAN, blank : BOOLEAN, suffix : Suffixes] :
      /\ w.parts < 2 => w.minutes = 0
      /\ w.parts < 3 => w.seconds = 0
      /\ w.suffix = <<>> => ~w.blank }

\* the text of a written time
timeText(w) ==
  (IF w.padded THEN twoDigits(w.hours) ELSE plainDigits(w.hours))
    \o (IF w.parts >= 2 THEN <<":">> \o twoDigits(w.minutes) ELSE <<>>)
    \o (IF w.parts >= 3 THEN <<":">> \o twoDigits(w.seconds) ELSE <<>>)
    \o (IF w.blank THEN <<" ">> ELSE <<>>)
    \o w.suffix

\* texts that are no time of the forms H, H:MM, H:MM:SS with a suffix
NoTimeTexts ==
  { <<>>, <<" ">>, <<"a", "m">>, <<"1", "2", "3">>, <<"7", ":", "5">>,
    <<"7", ":", "3", "0", ":", "1">>, <<":", "3", "0">>, <<"7", " ", "x", "m">>,
    <<"7", ":", "3", "0", " ", "a">>, <<"7", ".", "3", "0">>, <<"-", "1">> }

\* a time text is at hand, parseTime has not been called
TimeInit ==
  /\ \/ \E w \in WrittenTimes :
          helper = [fn |-> "parseTime", written |-> w, timeRaw |-> timeText(w),
                    called |-> FALSE, result |-> NoValue]
     \/ \E t \in NoTimeTexts :
          helper = [fn |-> "parseTime", written |-> NoValue, timeRaw |-> t,
                    called |-> FALSE, result |-> NoValue]
  /\ app = NoApp
  /\ build = "services"
  /\ readings = <<>>
  /\ pc = "idle"
  /\ tariffIx = 0
  /\ i = 0
  /\ locals = freshLocals
  /\ ret = NoReturn
  /\ reentered = FALSE
  /\ GasIdle
  /\ ParserIdle

notHelper == <<build, readings, pc, tariffIx, i, locals, ret, reentered, gasVars,
              grid, csvText, scan, parseVars, app>>

\* parseTime(timeRaw), with surrounding blanks or without them
CallParseTime ==
  /\ helper.fn = "parseTime"
  /\ ~helper.called
  /\ \E lead \in {<<>>, <<" ">>} :
       helper' = [helper EXCEPT !.called = TRUE,
                                !.timeRaw = lead \o helper.timeRaw \o lead,
                                !.result = parseTime(lead \o helper.timeRaw \o lead)]
  /\ UNCHANGED notHelper

TimeNext == CallParseTime

TimeSpec == TimeInit /\ [][TimeNext]_vars

\* ------------------------------------------------------------------------
\* The end of a parse on its own: normalization and the interval heuristic
\* ------------------------------------------------------------------------
\* the seconds between one reading and the next: 14.5, 15, 15.48 and 15.5
\* minutes, 30 and 60 minutes, just under and at 1.5 hours, one day
Deltas == {870, 900, 929, 930, 1800, 3600, 5399, 5400, 86400}

\* 2025-01-06 00:00 UTC, day 20094 of the epoch, in seconds
FirstInstant == 20094 * 86400

\* the instants of n readings that follow each other by the deltas ds
RECURSIVE instantsOf(_, _)
instantsOf(ds, n) ==
  IF n = 1 THEN <<FirstInstant>>
  ELSE LET before == instantsOf(ds, n - 1)
       IN  Append(before, before[n - 1] + ds[n - 1])

\* the lists of n readings the row loop has collected, in file order: 1 kWh
\* (1 therm) each
CollectedLists(n) ==
  {LET instants == instantsOf(ds, n)
   IN  [k \in 1..n |-> [timestamp |-> instants[k], value |-> RatOfInt(1)]]
     : ds \in [1..(n - 1) -> Deltas]}

\* the row loop of a parser has ended with readings and no skipped row
FinishInit ==
  /\ \E which \in Parsers, n \in 1..MaxNormalized : \E rs \in CollectedLists(n) :
       helper = [fn |-> "parseFinish", which |-> which,
                 st |-> [readings |-> rs, warnings |-> <<>>, skipped |-> 0],
                 called |-> FALSE, result |-> NoOutcome]
  /\ app = NoApp
  /\ build = "services"
  /\ readings = <<>>
  /\ pc = "idle"
  /\ tariffIx = 0
  /\ i = 0
  /\ locals = freshLocals
  /\ ret = NoReturn
  /\ reentered = FALSE
  /\ GasIdle
  /\ ParserIdle

\* the parser runs from the end of its row loop to its return
CallParseFinish ==
  /\ helper.fn = "parseFinish"
  /\ ~helper.called
  /\ helper' = [helper EXCEPT !.called = TRUE,
                              !.result = parseFinish(helper.which, helper.st)]
  /\ UNCHANGED notHelper

FinishNext == CallParseFinish

FinishSpec == FinishInit /\ [][FinishNext]_vars

\* ------------------------------------------------------------------------
\* The statistics over a reading list, each on its own: dataCoverage of the
\* App, compareTariffs, and the end of a parse
\* ------------------------------------------------------------------------
\* Math.round of the quotient num / den, den > 0: a half is rounded up
roundQuotient(num, den) == (2 * num + den) \div (2 * den)

\* readings.some(r => the month of r is in months)
someMonthIn(rs, months) == \E k \in 1..Len(rs) : getMonth(rs[k].timestamp) \in months

\* mutation of dataCoverage: the coverage is computed from one reading on
dataCoverageFromOne(rs) ==
  IF Len(rs) < 1 THEN NoValue
  ELSE
    LET start == rs[1].timestamp
        end == rs[Len(rs)].timestamp
        days == roundQuotient(getTime(end) - getTime(start), MinutesPerDay)
    IN  [ok |-> TRUE, days |-> days, months |-> roundQuotient(days * 25, 761),
         hasSummer |-> someMonthIn(rs, 5..8),
         hasWinter |-> someMonthIn(rs, {0, 1, 10, 11}),
         start |-> start, end |-> end]

\* the dataCoverage memo of the App: null below two readings; days is the
\* span in days rounded, months is days / 30.44 rounded
dataCoverage(rs) ==
  IF Len(rs) < 2 THEN NoValue
  ELSE
    LET start == rs[1].timestamp
        end == rs[Len(rs)].timestamp
        days == roundQuotient(getTime(end) - getTime(start), MinutesPerDay)
    IN  [ok |-> TRUE, days |-> days, months |-> roundQuotient(days * 25, 761),
         hasSummer |-> someMonthIn(rs, 5..8),
         hasWinter |-> someMonthIn(rs, {0, 1, 10, 11}),
         start |-> start, end |-> end]

\* a reading list is at hand for the memo and compareTariffs, or the row
\* loop of a parser has ended with readings
StatsInit ==
  /\ \/ /\ build \in Builds
        /\ readings \in ReadingLists
        /\ helper = [fn |-> "dataCoverage", called |-> FALSE, result |-> NoValue]
     \/ /\ build = "services"
        /\ readings = <<>>
        /\ \E which \in Parsers, n \in 1..MaxNormalized : \E rs \in CollectedLists(n) :
             helper = [fn |-> "parseFinish", which |-> which,
                       st |-> [readings |-> rs, warnings |-> <<>>, skipped |-> 0],
                       called |-> FALSE, result |-> NoOutcome]
  /\ app = NoApp
  /\ pc = "idle"
  /\ tariffIx = 0
  /\ i = 0
  /\ locals = freshLocals
  /\ ret = NoReturn
  /\ reentered = FALSE
  /\ GasIdle
  /\ ParserIdle

\* the memo is computed for the readings
CallDataCoverage ==
  /\ helper.fn = "dataCoverage"
  /\ ~helper.called
  /\ helper' = [helper EXCEPT !.called = TRUE, !.result = dataCoverage(readings)]
  /\ UNCHANGED notHelper

StatsNext ==
  \/ CallDataCoverage
  \/ \E id \in TariffIds : CallCompareTariffs(id)
  \/ CallParseFinish

StatsSpec == StatsInit /\ [][StatsNext]_vars

\* ========================================================================
\* The App component (src/unnamed/part_000)
\* ========================================================================
\* Of the state of the component the model holds readings (the variable
\* readings), currentTariff, comparisons, isLoading, uploadError,
\* uploadWarnings and simulatedLoads, and the files whose FileReader has not
\* fired yet. An action is one event handler together with the render and
\* the effects that follow it. uploadedFileName, aiAnalysis, chunkIndex and
\* the gas upload are left out: no effect or handler below reads them.
\* ------------------------------------------------------------------------
\* the most files whose read is under way at one time
MaxInFlight == 1

\* s.endsWith(suffix)
endsWith(s, suffix) ==
  Len(s) >= Len(suffix) /\ SubSeq(s, Len(s) - Len(suffix) + 1, Len(s)) = suffix

\* the loop over the data rows, to its end
RECURSIVE parseRows(_, _, _)
parseRows(which, eng, st) ==
  IF st.k > Len(st.rows) THEN st ELSE parseRows(which, eng, parseRow(which, eng, st))

\* parsePgeIntervalCsv(text): the result, or the error thrown
parsePgeIntervalCsv(eng, txt) ==
  IF parseEnter("electricity", txt).pc = "done"
  THEN parseEnter("electricity", txt).outcome
  ELSE parseFinish("electricity", parseRows("electricity", eng, parseEnter("electricity", txt)))

\* the calendar fields of a Date the parser made, from its getTime in
\* seconds, in a zone without clock changes
civilOf(t) ==
  LET z == t \div 86400 + 719468
      era == z \div 146097
      doe == z - era * 146097
      yoe == (doe - doe \div 1460 + doe \div 36524 - doe \div 146096) \div 365
      doy == doe - (365 * yoe + yoe \div 4 - yoe \div 100)
      mp == (5 * doy + 2) \div 153
      m == IF mp < 10 THEN mp + 3 ELSE mp - 9
  IN  [year |-> yoe + era * 400 + (IF m <= 2 THEN 1 ELSE 0),
       month |-> m - 1,
       date |-> doy - (153 * mp + 2) \div 5 + 1,
       hours |-> (t % 86400) \div 3600]

\* a number of kWh as the calculator of this model takes it: whole
wholeKwh(v) == v.num \div v.den

\* the readings of a parse as the calculator reads them: the same Date by
\* its calendar fields, the same value
asReadings(rs) ==
  [k \in 1..Len(rs) |-> [timestamp |-> civilOf(rs[k].timestamp), value |-> wholeKwh(rs[k].value)]]

\* hourlyPattern of the EV presets, in 1/100: charging from 10 PM to 6 AM
evPattern == [h \in 0..23 |-> IF h <= 5 \/ h >= 22 THEN 12 ELSE IF h = 6 THEN 4 ELSE 0]

\* LOAD_PRESETS, the first of them: seasonalMultiplier in 1/100
LoadPresets ==
  << [id |-> "ev-standard", monthlyKwh |-> 300, hourlyPattern |-> evPattern,
      seasonalMultiplier |-> <<110, 100, 95, 100>>] >>

\* LOAD_PRESETS.find(p => p.id === presetId), prev.find(l => l.id === presetId):
\* the index, 0 for undefined
RECURSIVE findLoad(_, _, _)
findLoad(loads, id, k) ==
  IF k > Len(loads) THEN 0
  ELSE IF loads[k].id = id THEN k
  ELSE findLoad(loads, id, k + 1)

\* month <= 1 ? 0 : month <= 4 ? 1 : month <= 7 ? 2 : month <= 10 ? 3 : 0,
\* counted from 1
seasonIdx(month) ==
  IF month <= 1 THEN 1 ELSE IF month <= 4 THEN 2 ELSE IF month <= 7 THEN 3
  ELSE IF month <= 10 THEN 4 ELSE 1

\* additionalKwh after the first n enabled loads:
\* (monthlyKwh * seasonalMultiplier[seasonIdx] / 30.44 * hourlyPattern[hour]) / 4
RECURSIVE additionalKwh(_, _, _, _)
additionalKwh(enabledLoads, n, hour, month) ==
  IF n = 0 THEN RatOfInt(0)
  ELSE
    LET load == LoadPresets[findLoad(LoadPresets, enabledLoads[n].id, 1)]
    IN  RatAdd(additionalKwh(enabledLoads, n - 1, hour, month),
               Rat(load.monthlyKwh * load.seasonalMultiplier[seasonIdx(month)]
                     * load.hourlyPattern[hour] * 25,
                   100 * 761 * 100 * 4))

\* the readingsWithSimulation memo. The readings of the files below lie in
\* the hours 7..21, where the EV presets add 0 kWh: the sums are whole.
readingsWithSimulation(rs, simulatedLoads) ==
  IF Len(rs) = 0 \/ Len(simulatedLoads) = 0 THEN rs
  ELSE IF SelectSeq(simulatedLoads, LAMBDA l : l.enabled) = <<>> THEN rs
  ELSE [k \in 1..Len(rs) |->
          [rs[k] EXCEPT !.value =
             wholeKwh(RatAdd(RatOfInt(rs[k].value),
                             additionalKwh(SelectSeq(simulatedLoads, LAMBDA l : l.enabled),
                                           Len(SelectSeq(simulatedLoads, LAMBDA l : l.enabled)),
                                           getHours(rs[k].timestamp),
                                           getMonth(rs[k].timestamp))))]]

\* the effect of [readings, readingsWithSimulation, currentTariff]: what
\* comparisons holds after it; there is no else branch
comparisonsEffect(b, rs, a) ==
  IF Len(rs) > 0
  THEN compareTariffs(b, readingsWithSimulation(rs, a.simulatedLoads), a.currentTariff, Roster)
  ELSE a.comparisons

\* the setSimulatedLoads updater of toggleSimulatedLoad
toggledLoads(prev, presetId) ==
  IF findLoad(prev, presetId, 1) /= 0
  THEN [k \in 1..Len(prev) |->
          IF prev[k].id = presetId THEN [prev[k] EXCEPT !.enabled = ~prev[k].enabled]
          ELSE prev[k]]
  ELSE IF findLoad(LoadPresets, presetId, 1) = 0 THEN prev
  ELSE Append(prev, [id |-> presetId, enabled |-> TRUE])

\* ------------------------------------------------------------------------
\* The files a user picks
\* ------------------------------------------------------------------------
usageTitles == titlesOf(Headers[1])

\* two readings a day apart and a row of totals between them
julyGrid ==
  << usageTitles,
     << <<"0", "7", "/", "1", "0", "/", "2", "0", "2", "5">>, <<"1", "5", ":", "0", "0">>, <<"1", "3", "0">> >>,
     << <<"T", "o", "t", "a", "l">>, <<>>, <<>> >>,
     << <<"0", "7", "/", "1", "1", "/", "2", "0", "2", "5">>, <<"1", "5", ":", "0", "0">>, <<"2", "7", "0">> >> >>

\* one reading
januaryGrid == << usageTitles, << <<"0", "1", "/", "0", "5", "/", "2", "0", "2", "5">>, <<"1", "9", ":", "0", "0">>, <<"1", "3", "0">> >> >>

\* a header row and no row that is a reading
totalsGrid == << usageTitles, << <<"T", "o", "t", "a", "l">>, <<>>, <<>> >> >>

\* a column of kWh that is a rate: a header row, and no column of usage
ratesGrid ==
  << << <<"S", "t", "a", "r", "t", " ", "D", "a", "t", "e">>, <<"S", "t", "a", "r", "t", " ", "T", "i", "m", "e">>, <<"R", "a", "t", "e", " ", "(", "$", "/", "k", "W", "h", ")">> >>, << <<"0", "7", "/", "1", "0", "/", "2", "0", "2", "5">>, <<"1", "5", ":", "0", "0">>, <<"$", "0", ".", "3", "5">> >> >>

\* no kWh in any row: no header row
costsGrid ==
  << << <<"D", "a", "t", "e">>, <<"T", "i", "m", "e">>, <<"C", "o", "s", "t", " ", "(", "$", ")">> >>, << <<"0", "7", "/", "1", "0", "/", "2", "0", "2", "5">>, <<"1", "5", ":", "0", "0">>, <<"$", "0", ".", "7", "0">> >> >>

textOf(g) == writeCsv(g, Len(g), <<LF>>)

AppFiles ==
  << [name |-> <<"j", "u", "l", "y", ".", "c", "s", "v">>, text |-> textOf(julyGrid)],
     [name |-> <<"J", "A", "N", "U", "A", "R", "Y", ".", "C", "S", "V">>, text |-> textOf(januaryGrid)],
     [name |-> <<"b", "l", "a", "n", "k", ".", "c", "s", "v">>, text |-> <<>>],
     [name |-> <<"t", "o", "t", "a", "l", "s", ".", "c", "s", "v">>, text |-> textOf(totalsGrid)],
     [name |-> <<"c", "o", "s", "t", "s", ".", "c", "s", "v">>, text |-> textOf(costsGrid)],
     [name |-> <<"r", "a", "t", "e", "s", ".", "c", "s", "v">>, text |-> textOf(ratesGrid)],
     [name |-> <<"j", "u", "l", "y", ".", "x", "m", "l">>, text |-> textOf(julyGrid)],
     [name |-> <<"j", "u", "l", "y", ".", "t", "x", "t">>, text |-> textOf(julyGrid)] >>

\* ------------------------------------------------------------------------
\* The handlers
\* ------------------------------------------------------------------------
NoError == "null"

\* no FileReader has fired in the last handler
NoLoad == [how |-> "none"]

\* the try block of reader.onload: the error thrown, or the result of the
\* parser; parserCalls counts the calls of parsePgeIntervalCsv
tryLoad(eng, file) ==
  IF endsWith(toLowerCase(file.name), <<".", "x", "m", "l">>)
  THEN [outcome |-> Thrown("xml-not-supported"), parserCalls |-> 0]
  ELSE IF ~endsWith(toLowerCase(file.name), <<".", "c", "s", "v">>)
  THEN [outcome |-> Thrown("unsupported-file-type"), parserCalls |-> 0]
  ELSE [outcome |-> parsePgeIntervalCsv(eng, file.text), parserCalls |-> 1]

\* s without its k-th element
removeAt(s, k) == SubSeq(s, 1, k - 1) \o SubSeq(s, k + 1, Len(s))

\* the tariffs the user selects: the first and the last of the roster
SelectableTariffs == {1, Len(Roster)}

\* the component after its first render and its effects; the files above
\* are read by parseDateTime, before the engine's Date is asked
AppInit ==
  /\ build = "services"
  /\ readings = <<>>
  /\ engine = "strict"
  /\ app = [mounted |-> TRUE,
            currentTariff |-> IF findTariff(Roster, "mce-ev2a", 1) /= 0 THEN "mce-ev2a"
                              ELSE Roster[1].id,
            comparisons |-> <<>>,
            isLoading |-> FALSE,
            uploadError |-> NoError,
            uploadWarnings |-> <<>>,
            simulatedLoads |-> <<>>,
            inFlight |-> <<>>,
            loaded |-> NoLoad]
  /\ helper = NoHelper
  /\ pc = "idle"
  /\ tariffIx = 0
  /\ i = 0
  /\ locals = freshLocals
  /\ ret = NoReturn
  /\ reentered = FALSE
  /\ GasIdle
  /\ grid = <<>>
  /\ csvText = <<>>
  /\ scan = [pc |-> "idle"]
  /\ parser = "none"
  /\ parse = [pc |-> "idle"]
  /\ outcome = [kind |-> "none"]

notApp == <<build, pc, tariffIx, i, locals, ret, reentered, gasVars, grid, csvText,
           scan, parseVars, helper>>

\* handleFileUpload(event) for the file AppFiles[f]: the read is started
HandleFileUpload(f) ==
  /\ app.mounted
  /\ Len(app.inFlight) < MaxInFlight
  /\ app' = [app EXCEPT !.uploadError = NoError,
                        !.uploadWarnings = <<>>,
                        !.isLoading = TRUE,
                        !.inFlight = Append(@, f),
                        !.loaded = NoLoad]
  /\ UNCHANGED readings
  /\ UNCHANGED notApp

\* mutation of afterLoad: a file that failed stays under way, so that its
\* onload runs again
afterLoadRetry(a, k, tried) ==
  IF tried.outcome.kind = "result"
  THEN [a EXCEPT !.uploadWarnings = tried.outcome.warnings,
                 !.isLoading = FALSE,
                 !.inFlight = removeAt(@, k),
                 !.loaded = [how |-> "onload", file |-> a.inFlight[k],
                             parserCalls |-> tried.parserCalls]]
  ELSE [a EXCEPT !.uploadWarnings = <<>>,
                 !.uploadError = tried.outcome.error,
                 !.isLoading = FALSE,
                 !.loaded = [how |-> "onload", file |-> a.inFlight[k],
                             parserCalls |-> tried.parserCalls]]

\* what reader.onload leaves of the component for the k-th read under way,
\* given what its try block came to
afterLoad(a, k, tried) ==
  IF tried.outcome.kind = "result"
  THEN [a EXCEPT !.uploadWarnings = tried.outcome.warnings,
                 !.isLoading = FALSE,
                 !.inFlight = removeAt(@, k),
                 !.loaded = [how |-> "onload", file |-> a.inFlight[k],
                             parserCalls |-> tried.parserCalls]]
  ELSE [a EXCEPT !.uploadWarnings = <<>>,
                 !.uploadError = tried.outcome.error,
                 !.isLoading = FALSE,
                 !.inFlight = removeAt(@, k),
                 !.loaded = [how |-> "onload", file |-> a.inFlight[k],
                             parserCalls |-> tried.parserCalls]]

\* the readings reader.onload sets
readingsLoaded(tried) ==
  IF tried.outcome.kind = "result" THEN asReadings(tried.outcome.readings) ELSE <<>>

\* reader.onload of the k-th read under way, and the effect that follows
OnLoad(k) ==
  /\ app.mounted
  /\ k \in 1..Len(app.inFlight)
  /\ \E tried \in {tryLoad(engine, AppFiles[app.inFlight[k]])} :
       /\ readings' = readingsLoaded(tried)
       /\ app' = [afterLoad(app, k, tried) EXCEPT
                    !.comparisons =
                      comparisonsEffect(build, readingsLoaded(tried), afterLoad(app, k, tried))]
  /\ UNCHANGED notApp

\* reader.onerror of the k-th read under way
OnReadError(k) ==
  /\ app.mounted
  /\ k \in 1..Len(app.inFlight)
  /\ app' = [app EXCEPT !.isLoading = FALSE,
                        !.uploadError = "read-failed",
                        !.inFlight = removeAt(@, k),
                        !.loaded = [how |-> "onerror", file |-> app.inFlight[k],
                                    parserCalls |-> 0]]
  /\ UNCHANGED readings
  /\ UNCHANGED notApp

\* toggleSimulatedLoad(presetId), and the effect that follows
ToggleSimulatedLoad(presetId) ==
  /\ app.mounted
  /\ \E a \in {[app EXCEPT !.simulatedLoads = toggledLoads(@, presetId),
                           !.loaded = NoLoad]} :
       app' = [a EXCEPT !.comparisons = comparisonsEffect(build, readings, a)]
  /\ UNCHANGED readings
  /\ UNCHANGED notApp

\* setCurrentTariff(t) for a tariff of the roster, and the effect that follows
SelectTariff(t) ==
  /\ app.mounted
  /\ \E a \in {[app EXCEPT !.currentTariff = Roster[t].id, !.loaded = NoLoad]} :
       app' = [a EXCEPT !.comparisons = comparisonsEffect(build, readings, a)]
  /\ UNCHANGED readings
  /\ UNCHANGED notApp

\* the reset button, shown while there are readings, and the effect that
\* follows
ResetData ==
  /\ app.mounted
  /\ Len(readings) > 0
  /\ readings' = <<>>
  /\ \E a \in {[app EXCEPT !.uploadError = NoError,
                           !.uploadWarnings = <<>>,
                           !.simulatedLoads = <<>>,
                           !.loaded = NoLoad]} :
       app' = [a EXCEPT !.comparisons = comparisonsEffect(build, <<>>, a)]
  /\ UNCHANGED notApp

AppNext ==
  \/ \E f \in 1..Len(AppFiles) : HandleFileUpload(f)
  \/ \E k \in 1..MaxInFlight : OnLoad(k)
  \/ \E k \in 1..MaxInFlight : OnReadError(k)
  \/ \E p \in 1..Len(LoadPresets) : ToggleSimulatedLoad(LoadPresets[p].id)
  \/ \E t \in SelectableTariffs : SelectTariff(t)
  \/ ResetData

AppSpec == AppInit /\ [][AppNext]_vars

\* ========================================================================
\* Properties
\* ========================================================================
isTiered(t) == t.type = "flat" \/ t.type = "tiered"

\* a reading has just been rated by the running call
JustRated == pc = "loop" /\ i > 1
RatedTariff == Roster[tariffIx]
RatedReading == readings[i - 1]
RatedHour == RatedReading.timestamp.hours
RatedMonth == RatedReading.timestamp.month

\* a call of calculateDetailedCost has returned
CostReturned == pc = "idle" /\ ret.kind = "cost"

\* the window of a period as the specification words it
WindowContains(startHour, endHour, h) ==
  \/ startHour <= endHour /\ startHour <= h /\ h <= endHour
  \/ startHour > endHour /\ (h >= startHour \/ h <= endHour)

\* C1: the period calculateDetailedCost finds for a reading of a tou tariff
\* has the reading's hour inside its window, both ends inclusive, and when
\* it finds none no window contains the hour; the window test accepts hour
\* h of 0..23 exactly when start <= h <= end (start <= end) or h >= start
\* or h <= end (start > end): 16..20 accepts 16..20 and neither 15 nor 21,
\* 21..15 accepts 21..23 and 0..15 and none of 16..20.
C1_WindowTest ==
  /\ JustRated /\ ~isTiered(RatedTariff) =>
       /\ locals.period /= 0 =>
            WindowContains(RatedTariff.periods[locals.period].startHour,
                           RatedTariff.periods[locals.period].endHour, RatedHour)
       /\ locals.period = 0 =>
            \A k \in 1..Len(RatedTariff.periods) :
              ~WindowContains(RatedTariff.periods[k].startHour,
                              RatedTariff.periods[k].endHour, RatedHour)
  /\ JustRated =>
       \A k \in 1..Len(RatedTariff.periods) : \A h \in 0..23 :
         inRange(RatedTariff.periods[k], h) <=>
           WindowContains(RatedTariff.periods[k].startHour,
                          RatedTariff.periods[k].endHour, h)
  /\ \A h \in 0..23 :
       /\ inRange(Period(16, 20, 0, Null), h) <=> h \in 16..20
       /\ inRange(Period(21, 15, 0, Null), h) <=> h \in (21..23) \cup (0..15)

\* a reading at 15:00 was matched by the wraparound window 21..15 of pge-tou-c
C1_Witness ==
  /\ JustRated
  /\ RatedTariff.id = "pge-tou-c"
  /\ RatedHour = 15
  /\ locals.period = 2

\* ------------------------------------------------------------------------
\* What the specification speaks of, computed from the readings alone
\* ------------------------------------------------------------------------
Min(a, b) == IF a < b THEN a ELSE b
Max(a, b) == IF a > b THEN a ELSE b

RECURSIVE SeqSum(_, _)
SeqSum(f, n) == IF n = 0 THEN 0 ELSE SeqSum(f, n - 1) + f[n]

Indices == 1..Len(readings)
StampOf(j) == readings[j].timestamp
SameCalendarMonth(j, k) ==
  StampOf(j).year = StampOf(k).year /\ StampOf(j).month = StampOf(k).month

\* "YYYY-MM" of a reading, digit by digit
KeyOf(j) ==
  LET y == StampOf(j).year
      m == StampOf(j).month + 1
  IN  << CharZero + (y \div 1000), CharZero + ((y \div 100) % 10),
         CharZero + ((y \div 10) % 10), CharZero + (y % 10), CharDash,
         CharZero + (m \div 10), CharZero + (m % 10) >>

\* usage of the calendar month of reading j
MonthUsage(j) ==
  SeqSum([k \in Indices |-> IF SameCalendarMonth(j, k) THEN readings[k].value ELSE 0],
         Len(readings))

\* usage of the calendar month of reading j up to and including reading j
CalendarRunning(j) ==
  SeqSum([k \in Indices |-> IF k <= j /\ SameCalendarMonth(j, k)
                            THEN readings[k].value ELSE 0], Len(readings))

\* first reading of the maximal run of consecutive readings that ends at j
\* and has one month-of-year throughout
RunStart(j) ==
  CHOOSE a \in 1..j :
    /\ \A k \in a..j : StampOf(k).month = StampOf(j).month
    /\ a > 1 => StampOf(a - 1).month /= StampOf(j).month

\* the monthly counter at reading j before its value is added
RunBefore(j) ==
  SeqSum([k \in Indices |-> IF RunStart(j) <= k /\ k < j
                            THEN readings[k].value ELSE 0], Len(readings))

BaselineOf(month) == IF month \in 5..8 THEN SummerBaseline ELSE WinterBaseline

ReturnedEntries == ret.cost.breakdown
EnergyCostOf(entry) == entry.cost - RatedTariff.fixedMonthlyCharge

\* month usage u priced marginally: below the baseline at rate r, from the
\* baseline to four baselines at 1.28 r, beyond at 1.45 r
MarginalCost(u, baseline, r) ==
  ( Min(u, baseline) * r
    + (Min(Max(u, baseline), 4 * baseline) - baseline) * ((r * Tier2Factor) \div RateScale)
    + (Max(u, 4 * baseline) - 4 * baseline) * ((r * Tier3Factor) \div RateScale)
  ) \div CostScale

\* C2: for a flat or tiered tariff each calendar month's energy cost is the
\* month's usage priced marginally by tier: below the baseline (270 in
\* months 5..8, 350 otherwise) at the rate of periods[0], up to four
\* baselines at 1.28 times it, beyond at 1.45 times it.
C2_MarginalTiers ==
  CostReturned /\ isTiered(RatedTariff) =>
    \A j \in Indices : \A k \in 1..Len(ReturnedEntries) :
      ReturnedEntries[k].monthName = KeyOf(j) =>
        EnergyCostOf(ReturnedEntries[k]) =
          MarginalCost(MonthUsage(j), BaselineOf(StampOf(j).month),
                       RatedTariff.periods[1].rate)

WithinBaseline(j) ==
  \A m \in Indices :
    SameCalendarMonth(j, m) =>
      /\ readings[m].value >= 0
      /\ RunBefore(m) + readings[m].value <= BaselineOf(StampOf(j).month)

SeasonalRate(period, month) ==
  IF month \in 5..8 /\ period.summerRate /= Null THEN period.summerRate
  ELSE period.rate

TierFactors == {RateScale, Tier2Factor, Tier3Factor, SeasonalTier2Factor}

\* C4: the per-unit rate of a reading is built on summerRate in months 5..8
\* when the applicable period defines one and on rate otherwise: for a tou
\* tariff it is that rate of the matched (or fallback) period, for a flat or
\* tiered tariff it is that rate of periods[0] times the tier factor.
C4_SummerRate ==
  JustRated =>
    IF isTiered(RatedTariff)
    THEN \E f \in TierFactors :
           locals.rate = (SeasonalRate(RatedTariff.periods[1], RatedMonth) * f) \div RateScale
    ELSE locals.rate =
           SeasonalRate(RatedTariff.periods[IF locals.period /= 0 THEN locals.period ELSE 1],
                        RatedMonth)

\* the first period, in declaration order, whose window contains hour h;
\* 0 when no window contains it
FirstContaining(periods, h) ==
  IF \E k \in 1..Len(periods) : WindowContains(periods[k].startHour, periods[k].endHour, h)
  THEN CHOOSE k \in 1..Len(periods) :
         /\ WindowContains(periods[k].startHour, periods[k].endHour, h)
         /\ \A m \in 1..(k - 1) :
              ~WindowContains(periods[m].startHour, periods[m].endHour, h)
  ELSE 0

\* C5: for a tou tariff the rate of a reading is that of the first period in
\* declaration order whose window contains the reading's hour, that of
\* periods[0] when no window contains it, whatever the monthly counter.
C5_FirstMatchingPeriod ==
  JustRated /\ ~isTiered(RatedTariff) =>
    LET first == FirstContaining(RatedTariff.periods, RatedHour)
    IN  /\ locals.period = first
        /\ locals.rate = periodRate(build,
                                    RatedTariff.periods[IF first /= 0 THEN first ELSE 1],
                                    RatedMonth)

\* a 19:00 reading inside both windows of tou-overlap was rated by the first,
\* after an earlier reading had already put 1100 kWh on the counter
C5_Witness ==
  /\ JustRated
  /\ RatedTariff.id = "tou-overlap"
  /\ i = 3
  /\ RatedHour = 19
  /\ inRange(RatedTariff.periods[2], RatedHour)
  /\ locals.period = 1
  /\ readings[1].value = 1100

\* the calendar months (year, month) the readings fall in
CalendarMonths == {<<StampOf(j).year, StampOf(j).month>> : j \in Indices}

\* energy cost of reading j: value x the rate at the counter it is met with
ReadingEnergy(t, j) ==
  (readings[j].value * readingRate(build, t, StampOf(j), RunBefore(j))) \div CostScale

TotalEnergy(t) == SeqSum([j \in Indices |-> ReadingEnergy(t, j)], Len(readings))

MonthEnergy(t, j) ==
  SeqSum([k \in Indices |-> IF SameCalendarMonth(j, k) THEN ReadingEnergy(t, k) ELSE 0],
         Len(readings))

\* C6: totalCost is the sum over the readings of value x rate plus the
\* number of distinct calendar months times fixedMonthlyCharge; each breakdown
\* entry's cost is its month's energy cost plus fixedMonthlyCharge once and
\* its usage the sum of the month's values; totalCost is the sum of the
\* breakdown costs.
C6_TotalAndBreakdown ==
  CostReturned =>
    /\ ret.cost.totalCost
         = TotalEnergy(RatedTariff)
           + Cardinality(CalendarMonths) * RatedTariff.fixedMonthlyCharge
    /\ \A j \in Indices : \A k \in 1..Len(ReturnedEntries) :
         ReturnedEntries[k].monthName = KeyOf(j) =>
           /\ ReturnedEntries[k].cost
                = MonthEnergy(RatedTariff, j) + RatedTariff.fixedMonthlyCharge
           /\ ReturnedEntries[k].usage = MonthUsage(j)
    /\ ret.cost.totalCost
         = SeqSum([k \in 1..Len(ReturnedEntries) |-> ReturnedEntries[k].cost],
                  Len(ReturnedEntries))

\* readings of two calendar months were costed on a tariff with a fixed charge
C6_Witness ==
  /\ CostReturned
  /\ RatedTariff.fixedMonthlyCharge > 0
  /\ Cardinality(CalendarMonths) = 2
  /\ Len(ReturnedEntries) = 2

\* C7: the breakdown has exactly one entry per calendar month (year and
\* month, key YYYY-MM) that has a reading, no other entry, and is ordered
\* strictly newest month first.
C7_OneEntryPerMonthNewestFirst ==
  CostReturned =>
    /\ Len(ReturnedEntries) = Cardinality(CalendarMonths)
    /\ \A j \in Indices :
         \E k \in 1..Len(ReturnedEntries) : ReturnedEntries[k].monthName = KeyOf(j)
    /\ \A k \in 1..Len(ReturnedEntries) :
         \E j \in Indices : ReturnedEntries[k].monthName = KeyOf(j)
    /\ \A k \in 1..(Len(ReturnedEntries) - 1) : \A a, b \in Indices :
         ( /\ ReturnedEntries[k].monthName = KeyOf(a)
           /\ ReturnedEntries[k + 1].monthName = KeyOf(b) )
         => StampOf(a).year * 12 + StampOf(a).month
              > StampOf(b).year * 12 + StampOf(b).month

\* a July 2025 and a December 2025 reading were costed: "2025-12" precedes
\* "2025-07" in the breakdown
C7_Witness ==
  /\ CostReturned
  /\ Len(readings) = 2
  /\ StampOf(1).month = 6
  /\ StampOf(2).month = 11
  /\ Len(ReturnedEntries) = 2
  /\ ReturnedEntries[1].monthName = KeyOf(2)

\* C8: what a call of calculateDetailedCost returns is a function of its
\* readings and tariff alone: whatever calls ran before it and whatever they
\* left behind, the counter and the tracked month start at 0 and -1 and the
\* total and breakdown returned are those of a first call on these inputs.
C8_NoStateBetweenCalls ==
  /\ pc = "loop" /\ i = 1 =>
       locals.monthlyUsageCounter = 0 /\ locals.currentMonth = -1
  /\ CostReturned =>
       ret.cost = calculateDetailedCost(build, readings, RatedTariff)

\* a call on the flat tariff returned after an earlier call had returned
C8_Witness ==
  /\ CostReturned
  /\ reentered
  /\ RatedTariff.id = "pge-e1"
  /\ Len(readings) = 2
  /\ locals.monthlyUsageCounter > 0

ComparisonsReturned == pc = "idle" /\ ret.kind = "comparisons" /\ Len(readings) > 0

\* the days between the first and the last reading, never less than 0.1
WindowDays ==
  LET minutes == getTime(StampOf(Len(readings))) - getTime(StampOf(1))
  IN  IF minutes * 10 < MinutesPerDay THEN Rat(1, 10) ELSE Rat(minutes, MinutesPerDay)

\* C9: for every tariff t of the roster estimatedMonthlyCost is (totalCost -
\* monthCount x t.fixedMonthlyCharge) x (30 / daysInReadings) +
\* t.fixedMonthlyCharge; over a 10-day window the energy cost is multiplied
\* by 3 and the fixed charge is added once.
C9_OnlyEnergyScaled ==
  ComparisonsReturned =>
    \A k \in 1..Len(Roster) :
      LET r == ret.results[k]
          energy == r.totalCost - Cardinality(CalendarMonths) * Roster[k].fixedMonthlyCharge
      IN  /\ r.tariffId = Roster[k].id
          /\ energy = TotalEnergy(Roster[k])
          /\ r.estimatedMonthlyCost
               = RatAdd(RatMul(RatOfInt(energy), RatDiv(RatOfInt(30), WindowDays)),
                        RatOfInt(Roster[k].fixedMonthlyCharge))
          /\ WindowDays = RatOfInt(10) =>
               r.estimatedMonthlyCost
                 = RatOfInt(3 * energy + Roster[k].fixedMonthlyCharge)

\* a 10-day window was compared: pge-e-home carries its fixed charge of 15 $
C9_Witness ==
  /\ ComparisonsReturned
  /\ WindowDays = RatOfInt(10)
  /\ ret.results[3].tariffId = "pge-e-home"
  /\ ret.results[3].totalCost > Roster[3].fixedMonthlyCharge
  /\ ret.results[3].estimatedMonthlyCost
       = RatOfInt(3 * (ret.results[3].totalCost - Roster[3].fixedMonthlyCharge)
                  + Roster[3].fixedMonthlyCharge)

\* C10: when the roster holds the selected tariff, savingsVsCurrent of every
\* result is the selected tariff's estimate minus that result's estimate: 0
\* for the selected tariff's own result, positive exactly when the result's
\* estimate is lower than the selected tariff's.
C10_SavingsVsCurrent ==
  ComparisonsReturned =>
    \A sel \in 1..Len(Roster) :
      Roster[sel].id = ret.currentTariffId =>
        /\ ret.results[sel].savingsVsCurrent = RatOfInt(0)
        /\ \A k \in 1..Len(Roster) :
             /\ ret.results[k].savingsVsCurrent
                  = RatSub(ret.results[sel].estimatedMonthlyCost,
                           ret.results[k].estimatedMonthlyCost)
             /\ ret.results[k].savingsVsCurrent.num > 0
                  <=> RatLess(ret.results[k].estimatedMonthlyCost,
                              ret.results[sel].estimatedMonthlyCost)

\* with tou-overlap selected, one tariff of the roster saves money and
\* another costs more
C10_Witness ==
  /\ ComparisonsReturned
  /\ ret.currentTariffId = "tou-overlap"
  /\ \E k \in 1..Len(Roster) : ret.results[k].savingsVsCurrent.num > 0
  /\ \E k \in 1..Len(Roster) : ret.results[k].savingsVsCurrent.num < 0
  /\ ret.results[5].savingsVsCurrent = RatOfInt(0)

\* the estimates of a list of results do not decrease from front to back
Ascending(list) ==
  \A k \in 1..(Len(list) - 1) :
    ~RatLess(list[k + 1].estimatedMonthlyCost, list[k].estimatedMonthlyCost)

GasComparisonReturned == gasRet.kind = "gasComparison"

\* the calendar months (year and month) the gas readings fall in
GasCalendarMonths ==
  {<<gasReadings[j].timestamp.year, gasReadings[j].timestamp.month>>
     : j \in 1..Len(gasReadings)}

\* C12: estimatedMonthlyCost of calculateGasComparison is its totalCost
\* divided by the number of distinct calendar months (year and month) of the
\* gas readings, whatever the time between the first and the last reading,
\* and is 0 when there are no readings.
C12_GasMonthlyAverage ==
  GasComparisonReturned =>
    LET r == gasRet.result
    IN  /\ Len(r.breakdown) = Cardinality(GasCalendarMonths)
        /\ Len(gasReadings) = 0 => r.estimatedMonthlyCost = RatOfInt(0)
        /\ Len(gasReadings) > 0 =>
             r.estimatedMonthlyCost = Rat(r.totalCost, Cardinality(GasCalendarMonths))

\* two readings ten days apart in one month: the estimate is the total, not
\* the total scaled by 30/10
C12_Witness ==
  /\ GasComparisonReturned
  /\ Len(gasReadings) = 2
  /\ gasRet.result.totalCost > 0
  /\ Cardinality(GasCalendarMonths) = 1
  /\ getTime(gasReadings[2].timestamp) - getTime(gasReadings[1].timestamp)
       = 10 * MinutesPerDay
  /\ gasRet.result.estimatedMonthlyCost = RatOfInt(gasRet.result.totalCost)

RowsReturned == scan.pc = "done"

\* the rows of a grid that have at least one non-blank cell, in order
NonBlankRows(g) == SelectSeq(g, LAMBDA r : \E k \in 1..Len(r) : nonBlank(r[k]))

\* C20: a grid of cells that may hold commas and quote marks, written with
\* every cell double-quoted and each inner quote doubled, cells joined by
\* commas and rows by line breaks, is read back by parseCsvRows cell for cell:
\* the rows returned are the rows of the grid that have a non-blank cell.
C20_RoundTrip ==
  RowsReturned => scan.rows = NonBlankRows(grid)

\* a grid holding a quote mark, a comma inside a cell, an empty cell and a
\* blank row was read back
C20_Witness ==
  /\ RowsReturned
  /\ Len(grid) = 2
  /\ Len(scan.rows) = 1
  /\ scan.rows = <<grid[2]>>
  /\ grid[2] = << <<Quote, Comma, Quote>>, <<>> >>

\* ------------------------------------------------------------------------
\* The parsers
\* ------------------------------------------------------------------------
\* a parser has returned a result
Parsed == outcome.kind = "result"

\* the rows the loop accepted, in file order
Accepted == parse.readings

\* the sum of the values of the first n readings of rs stamped t
RECURSIVE SumAt(_, _, _)
SumAt(rs, n, t) ==
  IF n = 0 THEN RatOfInt(0)
  ELSE IF rs[n].timestamp = t THEN RatAdd(SumAt(rs, n - 1, t), rs[n].value)
  ELSE SumAt(rs, n - 1, t)

\* the sum of the values of the first n readings of rs
RECURSIVE SumAll(_, _)
SumAll(rs, n) == IF n = 0 THEN RatOfInt(0) ELSE RatAdd(SumAll(rs, n - 1), rs[n].value)

SameNumber(a, b) == RatSub(a, b).num = 0

\* C13: the readings a parser returns have strictly increasing timestamps,
\* the value at each timestamp is the sum of the values of the accepted rows
\* of that timestamp, every accepted timestamp is returned, and the total of
\* the values is that of the accepted rows.
C13_NormalizedStream ==
  Parsed =>
    LET out == outcome.readings
    IN  /\ \A k \in 1..(Len(out) - 1) : out[k].timestamp < out[k + 1].timestamp
        /\ \A k \in 1..Len(out) :
             SameNumber(out[k].value, SumAt(Accepted, Len(Accepted), out[k].timestamp))
        /\ {out[k].timestamp : k \in 1..Len(out)}
             = {Accepted[k].timestamp : k \in 1..Len(Accepted)}
        /\ SameNumber(SumAll(out, Len(out)), SumAll(Accepted, Len(Accepted)))

\* two accepted rows of one timestamp, with values that are not zero, have
\* been merged into one reading
C13_Witness ==
  /\ Parsed
  /\ Len(Accepted) = 2
  /\ Len(outcome.readings) = 1
  /\ Accepted[1].value.num # 0
  /\ Accepted[2].value.num # 0

\* the loop over the data rows has read at least one row
RowRead ==
  /\ parse.pc \in {"rows", "done"}
  /\ "rows" \in DOMAIN parse
  /\ parse.k > parse.headerIdx + 1

\* the row read last
LastRow == parse.rows[parse.k - 1]

\* the row read last has been pushed on the readings
RowAccepted == parse.kwh.ok /\ parse.ts.ok

\* the reading pushed last
LastReading == Accepted[Len(Accepted)]

\* the title of column c of the header row, in lower case
HeaderTitle(c) == toLowerCase(parse.rows[parse.headerIdx][c])

\* the columns whose title holds the word and the unit keyword kwh
UnitColumns(word) ==
  {c \in 1..Len(parse.rows[parse.headerIdx]) :
     contains(HeaderTitle(c), word) /\ contains(HeaderTitle(c), <<"k", "w", "h">>)}

ImportColumns == UnitColumns(<<"i", "m", "p", "o", "r", "t">>)

ExportColumns == UnitColumns(<<"e", "x", "p", "o", "r", "t">>)

FirstOf(S) == CHOOSE c \in S : \A d \in S : c <= d

\* the electricity header has an import and an export column
NetMode == parser = "electricity" /\ ImportColumns /= {} /\ ExportColumns /= {}

NetUsageNote == [kind |-> "net-usage"]

Holds(warnings, w) == \E k \in 1..Len(warnings) : warnings[k] = w

\* C14: with an import and an export column naming the unit, the value of a
\* reading is the import of its row minus the export, negative when the
\* export is the larger, and the warnings hold the net-usage note; without
\* one of the two columns the note is absent and the value is the number of
\* the usage column.
C14_NetUsage ==
  /\ (RowRead /\ RowAccepted /\ parser = "electricity") =>
       IF NetMode
       THEN LET imp == parseNumber(cellAt(LastRow, FirstOf(ImportColumns)))
                exp == parseNumber(cellAt(LastRow, FirstOf(ExportColumns)))
            IN  (imp.ok /\ exp.ok) =>
                  SameNumber(LastReading.value, RatSub(imp.value, exp.value))
       ELSE LET usage == parseNumber(cellAt(LastRow, parse.cols.usageIdx))
            IN  usage.ok /\ SameNumber(LastReading.value, usage.value)
  /\ (Parsed /\ parser = "electricity") =>
       (NetMode <=> Holds(outcome.warnings, NetUsageNote))

\* a file with import and export columns has been parsed: the row of import
\* 2.0 and export 0.5 gave 1.5, the row of import 1.234 and export 2.5 a
\* negative value, and the note is in the warnings
C14_Witness ==
  /\ Parsed
  /\ NetMode
  /\ Len(Accepted) = 2
  /\ Accepted[1].value = [num |-> 3, den |-> 2]
  /\ Accepted[2].value.num < 0
  /\ outcome.readings[1].value.num > 0
  /\ Holds(outcome.warnings, NetUsageNote)

\* a file with an import column and no export column has been parsed
C14_WitnessSingle ==
  /\ Parsed
  /\ ImportColumns /= {}
  /\ ExportColumns = {}
  /\ ~Holds(outcome.warnings, NetUsageNote)

\* the rows of the file the loop has read so far
RowsRead == (parse.headerIdx + 1)..(parse.k - 1)

\* the usage cell of row r holds no number, or no timestamp strategy
\* succeeds on the row
Unusable(r) ==
  \/ ~parseNumber(cellAt(parse.rows[r], parse.cols.usageIdx)).ok
  \/ ~rowTimestamp(parser, engine, parse.cols, parse.rows[r]).ok

SkippedNotes(warnings) == {k \in 1..Len(warnings) : warnings[k].kind = "skipped"}

\* C15: every data row is either pushed on the readings or counted as
\* skipped; the rows skipped are those whose usage cell holds no number (a
\* zero is a number) and those no timestamp strategy succeeds on; skipped
\* rows do not fail a parse that has a reading; the result holds one warning
\* with the number of skipped rows when there is one, and none otherwise.
C15_AsStated ==
  /\ RowRead =>
       /\ Len(Accepted) + parse.skipped = Cardinality(RowsRead)
       /\ parse.skipped = Cardinality({r \in RowsRead : Unusable(r)})
  /\ (RowRead /\ parse.pc = "done" /\ Len(Accepted) > 0) => Parsed
  /\ Parsed =>
       IF parse.skipped > 0
       THEN /\ Cardinality(SkippedNotes(outcome.warnings)) = 1
            /\ \A k \in SkippedNotes(outcome.warnings) :
                 outcome.warnings[k].count = parse.skipped
       ELSE SkippedNotes(outcome.warnings) = {}

\* the parser has ended, by a throw or a return
ParseEnded == parse.pc = "done"

FatalErrors == {"empty", "no-header", "no-usage-column", "no-readings"}

\* the titles of row h of the rows, normalized
HeaderOf(rows, h) == [k \in 1..Len(rows[h]) |-> normalizeHeader(trim(rows[h][k]))]

\* C16: a parser ends in one of four errors, tested in this order: fewer
\* than 2 non-blank rows, no header row, no usage column, no reading; or it
\* returns a result with at least one reading.
C16_FatalErrorsInOrder ==
  /\ outcome.kind \in {"none", "error", "result"}
  /\ outcome.kind = "error" => outcome.error \in FatalErrors
  /\ outcome.kind = "none" <=> ~ParseEnded
  /\ ParseEnded =>
       LET rows == NonBlankRows(grid)
           h == IF Len(rows) < 2 THEN 0 ELSE detectHeaderRowIndex(parser, rows)
       IN  IF Len(rows) < 2 THEN outcome = Thrown("empty")
           ELSE IF h = 0 THEN outcome = Thrown("no-header")
           ELSE IF resolveColumns(parser, HeaderOf(rows, h)).usageIdx = 0
                THEN outcome = Thrown("no-usage-column")
           ELSE IF Len(Accepted) = 0 THEN outcome = Thrown("no-readings")
           ELSE Parsed /\ Len(outcome.readings) > 0

\* a file with a header row and a usage column whose data rows were all
\* skipped has ended in the last of the four errors
C16_Witness ==
  /\ ParseEnded
  /\ outcome = Thrown("no-readings")
  /\ parse.skipped > 0

\* the other three errors
C16_WitnessEmpty == ParseEnded /\ outcome = Thrown("empty") /\ Len(grid) = 1

C16_WitnessNoHeader == ParseEnded /\ outcome = Thrown("no-header") /\ Len(grid) >= 2

C16_WitnessNoUsage == ParseEnded /\ outcome = Thrown("no-usage-column")

\* some cell of the row, its cells in lower case, holds one of the words
RowNames(lower, words) == \E c \in 1..Len(lower) : containsAny(lower[c], words)

ScoreOfNames(lower) ==
  (IF RowNames(lower, {IF parser = "electricity" THEN <<"k", "w", "h">> ELSE <<"t", "h", "e", "r", "m">>}) THEN 3 ELSE 0)
  + (IF RowNames(lower, {<<"u", "s", "a", "g", "e">>, <<"c", "o", "n", "s", "u", "m", "p", "t", "i", "o", "n">>, <<"q", "u", "a", "n", "t", "i", "t", "y">>, <<"v", "a", "l", "u", "e">>}) THEN 2 ELSE 0)
  + (IF RowNames(lower, {<<"s", "t", "a", "r", "t">>, <<"e", "n", "d">>, <<"i", "n", "t", "e", "r", "v", "a", "l">>}) THEN 2 ELSE 0)
  + (IF RowNames(lower, {<<"d", "a", "t", "e">>, <<"t", "i", "m", "e">>}) THEN 1 ELSE 0)

\* the score of a row, whatever the case of its cells: unit keyword 3, usage
\* noun 2, interval-boundary keyword 2, temporal keyword 1
KeywordScore(row) == ScoreOfNames([c \in 1..Len(row) |-> toLowerCase(row[c])] \o <<>>)

\* the rows header detection looks at: among the first 80, those with at
\* least 3 non-empty cells
Eligible(rows) ==
  {k \in 1..Len(rows) :
     /\ k <= 80
     /\ Cardinality({c \in 1..Len(rows[k]) : nonBlank(rows[k][c])}) >= 3}

\* the highest score of the eligible rows
TopScore(rows) ==
  LET scores == {KeywordScore(rows[k]) : k \in Eligible(rows)}
  IN  CHOOSE s \in scores : \A t \in scores : t <= s

\* the earliest of the eligible rows of the highest score
TopRow(rows) ==
  LET top == TopScore(rows)
      tops == {k \in Eligible(rows) : KeywordScore(rows[k]) = top}
  IN  CHOOSE k \in tops : \A j \in tops : k <= j

\* the header row by the rule of the claim; 0 for none
HeaderByRule(rows) ==
  IF Eligible(rows) = {} THEN 0
  ELSE LET top == TopRow(rows)
       IN  IF KeywordScore(rows[top]) >= (IF parser = "electricity" THEN 4 ELSE 3)
           THEN top ELSE 0

\* the parser has been entered and no data row has been read yet
HeaderSought ==
  /\ parse.pc /= "idle"
  /\ "rows" \in DOMAIN parse => parse.pc = "rows" /\ parse.k = parse.headerIdx + 1

\* C17: detectHeaderRowIndex looks at the first 80 rows and among them at
\* the rows with at least 3 non-empty cells, and returns the earliest row of
\* the highest keyword score when this score is at least 4 (electricity) or
\* 3 (gas); otherwise it returns no row and the parser fails with the
\* no-header error.
C17_HeaderDetection ==
  (HeaderSought /\ Len(NonBlankRows(grid)) >= 2) =>
    \A rows \in {NonBlankRows(grid)} :
      \A header \in {HeaderByRule(rows)} :
        /\ detectHeaderRowIndex(parser, rows) = header
        /\ "headerIdx" \in DOMAIN parse => parse.headerIdx = header
        /\ outcome = Thrown("no-header") <=> header = 0

\* the header row has been found in the last of the 80 rows scanned
C17_Witness ==
  /\ parse.pc = "rows"
  /\ parse.headerIdx = 80
  /\ KeywordScore(parse.rows[80]) >= 4

\* the header row is the 81st row: no header
C17_WitnessBeyond ==
  /\ outcome = Thrown("no-header")
  /\ Len(grid) > 81
  /\ KeywordScore(grid[81]) >= 4

\* two rows of the highest score: the earlier one is the header row
C17_WitnessTie ==
  /\ parse.pc = "rows"
  /\ parse.headerIdx = 1
  /\ parse.rows[2] = parse.rows[1]

\* a row of a high score with two cells only: no header
C17_WitnessTwoCells ==
  /\ outcome = Thrown("no-header")
  /\ Len(grid[1]) = 2
  /\ KeywordScore(grid[1]) >= 4

\* a row of score 3 is a header row for gas and none for electricity
C17_WitnessThreshold ==
  /\ ParseEnded
  /\ KeywordScore(grid[1]) = 3
  /\ Len(grid) >= 2
  /\ outcome = Thrown("no-header") <=> parser = "electricity"

\* the cell of the row read last in column idx
Cell(idx) == cellAt(LastRow, idx)

\* a timestamp moved back by one nominal interval: 15 minutes for
\* electricity, 60 minutes for gas
OneIntervalBefore(end) ==
  IF end.ok
  THEN [ok |-> TRUE, time |-> end.time - (IF parser = "electricity" THEN 15 * 60 ELSE 60 * 60)]
  ELSE NoValue

\* the strategies in the order of the claim, each for the row read last:
\* NoValue when a column of the strategy is missing or the strategy fails
StrategiesInOrder ==
  LET c == parse.cols
  IN  << IF c.startDateTimeIdx /= 0
         THEN parseSingleDateTimeField(engine, Cell(c.startDateTimeIdx)) ELSE NoValue,
         IF c.startDateIdx /= 0 /\ c.startTimeIdx /= 0
         THEN parseDateTime(Cell(c.startDateIdx), Cell(c.startTimeIdx)) ELSE NoValue,
         IF c.dateIdx /= 0 /\ c.timeIdx /= 0
         THEN parseDateTime(Cell(c.dateIdx), Cell(c.timeIdx)) ELSE NoValue,
         IF c.dateIdx /= 0 /\ c.startTimeIdx /= 0
         THEN parseDateTime(Cell(c.dateIdx), Cell(c.startTimeIdx)) ELSE NoValue,
         IF c.dateIdx /= 0
         THEN parseSingleDateTimeField(engine, Cell(c.dateIdx)) ELSE NoValue,
         IF c.endDateTimeIdx /= 0
         THEN OneIntervalBefore(parseSingleDateTimeField(engine, Cell(c.endDateTimeIdx)))
         ELSE NoValue,
         IF c.endDateIdx /= 0 /\ c.endTimeIdx /= 0
         THEN OneIntervalBefore(parseDateTime(Cell(c.endDateIdx), Cell(c.endTimeIdx)))
         ELSE NoValue >>

\* a row with a usage has been read
TimestampSought == RowRead /\ parse.kwh.ok

\* C18: the timestamp of a row is the result of the first of the seven
\* strategies, in the order of the claim, that succeeds on the row; the row
\* is skipped for its timestamp only when all seven fail.
C18_FirstStrategyWins ==
  TimestampSought =>
    LET tried == StrategiesInOrder
    IN  /\ \A k \in 1..7 :
             (tried[k].ok /\ \A j \in 1..(k - 1) : ~tried[j].ok) =>
               /\ parse.ts = tried[k]
               /\ LastReading.timestamp = tried[k].time
        /\ (\A k \in 1..7 : ~tried[k].ok) => ~parse.ts.ok /\ parse.skipped > 0

\* the combined start column of a row holds no timestamp, and the sixth
\* strategy, the combined end less one interval, has given the timestamp
C18_Witness ==
  /\ TimestampSought
  /\ parse.cols.startDateTimeIdx /= 0
  /\ ~StrategiesInOrder[1].ok
  /\ StrategiesInOrder[6].ok
  /\ parse.ts = StrategiesInOrder[6]
  /\ LastReading.timestamp = StrategiesInOrder[6].time

\* two strategies succeed with different results: the earlier one is taken
C18_WitnessEarlier ==
  /\ TimestampSought
  /\ StrategiesInOrder[5].ok
  /\ StrategiesInOrder[7].ok
  /\ StrategiesInOrder[5] /= StrategiesInOrder[7]
  /\ parse.ts = StrategiesInOrder[5]

\* every strategy fails: the row is skipped
C18_WitnessSkipped ==
  /\ TimestampSought
  /\ ~parse.ts.ok
  /\ \E k \in 1..7 : parse.cols.dateIdx /= 0 \/ parse.cols.startDateIdx /= 0

\* the header row of the file is Start Date, Start Time, Usage (kWh)
StartDateTimeHeader ==
  parse.rows[parse.headerIdx]
    = << <<"S", "t", "a", "r", "t", " ", "D", "a", "t", "e">>,
         <<"S", "t", "a", "r", "t", " ", "T", "i", "m", "e">>,
         <<"U", "s", "a", "g", "e", " ", "(", "k", "W", "h", ")">> >>

\* the number a run of digits writes
Number(ds) == digitsValue(ds, Len(ds))

DaysOfMonth(year, month) ==
  IF month = 2
  THEN (IF year % 4 = 0 /\ (year % 100 /= 0 \/ year % 400 = 0) THEN 29 ELSE 28)
  ELSE IF month \in {4, 6, 9, 11} THEN 30 ELSE 31

\* the cell is a date M/D/YYYY of the calendar
IsUsDate(cell) ==
  LET parts == split(cell, "/")
  IN  /\ Len(parts) = 3
      /\ \A k \in 1..3 : parts[k] /= <<>> /\ allDigits(parts[k])
      /\ Len(parts[1]) <= 2 /\ Len(parts[2]) <= 2 /\ Len(parts[3]) = 4
      /\ Number(parts[1]) \in 1..12
      /\ Number(parts[2]) \in 1..DaysOfMonth(Number(parts[3]), Number(parts[1]))

\* the cell is a time of day H:MM
IsClock(cell) ==
  LET parts == split(cell, ":")
  IN  /\ Len(parts) = 2
      /\ \A k \in 1..2 : parts[k] /= <<>> /\ allDigits(parts[k])
      /\ Len(parts[1]) <= 2 /\ Len(parts[2]) = 2
      /\ Number(parts[1]) \in 0..23
      /\ Number(parts[2]) \in 0..59

\* the seconds from 1970-01-01T00:00 to the date and time of day the two
\* cells write, both local
LocalTime(dateCell, timeCell) ==
  LET d == split(dateCell, "/")
      t == split(timeCell, ":")
  IN  daysFromCivil(Number(d[3]), Number(d[1]), Number(d[2])) * 86400
        + Number(t[1]) * 3600 + Number(t[2]) * 60

\* row r of the file holds a date M/D/YYYY, a time H:MM and a usage
Usable(r) ==
  /\ IsUsDate(parse.rows[r][1])
  /\ IsClock(parse.rows[r][2])
  /\ parseNumber(parse.rows[r][3]).ok

\* C19: under the header Start Date, Start Time, Usage (kWh) a row with a
\* date M/D/YYYY, a time H:MM and a numeric usage gives a reading at that
\* local date and time of day with that value (01/18/2025, 00:15, 1.234:
\* 2025-01-18T00:15:00, which is 1737159300 s, and 617/500); two such rows
\* of the same date and time give one reading, of the sum of their values.
C19_StartDateStartTime ==
  (RowRead /\ parser = "electricity" /\ StartDateTimeHeader) =>
    /\ Usable(parse.k - 1) =>
         /\ RowAccepted
         /\ LastReading.timestamp = LocalTime(LastRow[1], LastRow[2])
         /\ SameNumber(LastReading.value, parseNumber(LastRow[3]).value)
         /\ (LastRow[1] = <<"0", "1", "/", "1", "8", "/", "2", "0", "2", "5">>
               /\ LastRow[2] = <<"0", "0", ":", "1", "5">>)
              => LastReading.timestamp = 1737159300
         /\ LastRow[3] = <<"1", ".", "2", "3", "4">>
              => LastReading.value = [num |-> 617, den |-> 500]
    /\ (Parsed /\ Cardinality(RowsRead) = 2 /\ (\A r \in RowsRead : Usable(r))
          /\ LocalTime(parse.rows[parse.k - 2][1], parse.rows[parse.k - 2][2])
               = LocalTime(LastRow[1], LastRow[2])) =>
         /\ Len(outcome.readings) = 1
         /\ outcome.readings[1].timestamp = LocalTime(LastRow[1], LastRow[2])
         /\ SameNumber(outcome.readings[1].value,
                       RatAdd(parseNumber(parse.rows[parse.k - 2][3]).value,
                              parseNumber(LastRow[3]).value))

\* the rows 01/18/2025, 00:15, 2.0 and 01/18/2025, 00:15, 1.234 have been
\* returned as one reading of 3.234 at 2025-01-18T00:15:00
C19_Witness ==
  /\ Parsed
  /\ parser = "electricity"
  /\ StartDateTimeHeader
  /\ Cardinality(RowsRead) = 2
  /\ LastRow[3] = <<"1", ".", "2", "3", "4">>
  /\ LastReading = [timestamp |-> 1737159300, value |-> [num |-> 617, den |-> 500]]
  /\ outcome.readings = <<[timestamp |-> 1737159300, value |-> [num |-> 1617, den |-> 500]]>>

\* ------------------------------------------------------------------------
\* parseCsvRows: quoted separators, line endings, malformed quoting
\* ------------------------------------------------------------------------
\* the cell holds a comma or a line break
HoldsSeparator(c) == \E k \in 1..Len(c) : c[k] \in {Comma, LF}

\* the text of the grid, its line breaks written as \n
LfText == writeCsv(grid, Len(grid), <<LF>>)

\* C21: a comma or a line break inside a double-quoted cell ends neither the
\* cell nor the row and is part of the content of that one cell; and the
\* text tokenizes to the same rows whether its line breaks are written CRLF,
\* CR or LF.
C21_QuotedSeparatorsAndLineEndings ==
  RowsReturned =>
    /\ \A rows \in {NonBlankRows(grid)} :
         /\ Len(scan.rows) = Len(rows)
         /\ \A r \in 1..Len(rows) :
              /\ Len(scan.rows[r]) = Len(rows[r])
              /\ \A c \in 1..Len(rows[r]) :
                   HoldsSeparator(rows[r][c]) => scan.rows[r][c] = rows[r][c]
    /\ \A eol \in LineBreaks : parseCsvRows(withLineBreaks(LfText, eol)) = scan.rows

\* a text of two rows with CR line breaks, whose first row holds a quoted
\* cell with a line break and a quoted cell with a comma, has been read
C21_Witness ==
  /\ RowsReturned
  /\ grid = << << <<"b", LF>>, <<Quote, Comma, Quote>> >>, << <<"a">> >> >>
  /\ CR \in {csvText[k] : k \in 1..Len(csvText)}
  /\ LF \notin {csvText[k] : k \in 1..Len(csvText)}
  /\ scan.rows = << << <<"b", LF>>, <<Quote, Comma, Quote>> >>, << <<"a">> >> >>

\* the characters of a sequence of texts, in order
RECURSIVE Joined(_)
Joined(texts) == IF texts = <<>> THEN <<>> ELSE Head(texts) \o Joined(Tail(texts))

\* the letters of a text, in order
Letters(text) == SelectSeq(text, LAMBDA ch : ch \in {"a", "b"})

\* every cell the scan holds: those of the rows pushed, those of the row
\* being read, and the cell being read
ScanCells(st) == Joined(st.rows) \o st.row \o <<st.cell>>

\* the character the loop is about to read
NextChar == scan.text[scan.i]

\* the loop is about to read a character that is neither a quote mark nor a
\* separator outside quotes
ReadsContent ==
  /\ scan.pc = "loop"
  /\ scan.i <= Len(scan.text)
  /\ NextChar /= Quote
  /\ scan.inQuotes \/ NextChar \notin {Comma, LF}

\* what the scan holds at each point: it is idle, in the loop or done and
\* nowhere else; the letters read so far are the letters of its cells, in
\* order; on return the whole text has been read
ScanSound ==
  /\ scan.pc \in {"idle", "loop", "done"}
  /\ scan.pc /= "idle" =>
       /\ scan.i \in 1..(Len(scan.text) + 1)
       /\ Letters(SubSeq(scan.text, 1, scan.i - 1)) = Letters(Joined(ScanCells(scan)))
  /\ scan.pc = "done" => scan.i = Len(scan.text) + 1

\* one iteration of the loop moves on in the text; a character that is
\* neither a quote mark nor a separator is added to the cell being read
ScanAdvances ==
  scan.pc = "loop" =>
    /\ scan'.pc = "loop" => scan'.i > scan.i
    /\ ReadsContent =>
         /\ scan'.cell = Append(scan.cell, NextChar)
         /\ scan'.row = scan.row
         /\ scan'.rows = scan.rows
         /\ scan'.i = scan.i + 1

\* C22: parseCsvRows has no failure mode: on every text, unterminated and
\* stray quote marks included, the loop ends after reading the whole text
\* and rows are returned; every character that is neither a quote mark nor a
\* separator is added to a cell of the scan.
C22_NoFailureMode ==
  /\ []ScanSound
  /\ [][ScanAdvances]_vars
  /\ <>RowsReturned

\* a text with a stray quote mark in a cell and an unterminated quote was
\* read to its end: the comma behind the open quote is part of the cell
C22_Witness ==
  /\ RowsReturned
  /\ csvText = <<"a", Quote, Comma, "b">>
  /\ scan.inQuotes
  /\ scan.rows = << << <<"a", Comma, "b">> >> >>

\* ------------------------------------------------------------------------
\* The monthly counter of calculateDetailedCost
\* ------------------------------------------------------------------------
\* reading j starts a run: it is the first reading, or its month-of-year is
\* not that of the reading before it
StartsRun(j) == j = 1 \/ StampOf(j).month /= StampOf(j - 1).month

\* C24: in the fold of calculateDetailedCost the monthly counter is reset to
\* 0 exactly when a reading's month-of-year differs from that of the reading
\* processed before it, the year not being compared: after each reading the
\* counter is the sum of the values of the maximal run of consecutive
\* readings of one month-of-year that ends with it, and the tracked month is
\* that reading's month-of-year.
C24_CounterResetByMonthOfYear ==
  JustRated =>
    /\ locals.currentMonth = RatedMonth
    /\ locals.monthlyUsageCounter = RunBefore(i - 1) + RatedReading.value
    /\ StartsRun(i - 1) <=> RunStart(i - 1) = i - 1
    /\ StartsRun(i - 1) => locals.monthlyUsageCounter = RatedReading.value
    /\ ~StartsRun(i - 1) =>
         locals.monthlyUsageCounter
           = RunBefore(i - 2) + readings[i - 2].value + RatedReading.value

\* a reading of December 2025 was rated right after one of December 2024:
\* the counter holds both
C24_Witness ==
  /\ JustRated
  /\ i = 3
  /\ StampOf(1).month = 11 /\ StampOf(2).month = 11
  /\ StampOf(1).year = 2024 /\ StampOf(2).year = 2025
  /\ readings[1].value = 270 /\ readings[2].value = 130
  /\ locals.monthlyUsageCounter = 400

\* a reading was rated right after one of another month: the counter holds
\* its value alone
C24_WitnessReset ==
  /\ JustRated
  /\ i = 3
  /\ StampOf(1).month /= StampOf(2).month
  /\ readings[1].value = 270
  /\ locals.monthlyUsageCounter = readings[2].value

\* ------------------------------------------------------------------------
\* The window of compareTariffs
\* ------------------------------------------------------------------------
\* minutes between the first and the last reading
WindowMinutes == getTime(StampOf(Len(readings))) - getTime(StampOf(1))

\* the window is shorter than 0.1 day (one reading: no time at all)
ShortWindow == WindowMinutes * 10 < MinutesPerDay

\* compareTariffs is about to be called on the readings, or has returned
WindowTaken == pc = "idle" /\ ret.kind \in {"none", "comparisons"} /\ Len(readings) > 0

\* C25: daysInReadings is the time between the first and the last reading in
\* days and never less than 0.1; for one reading, or a window shorter than
\* 0.1 day, monthMultiplier is exactly 300 and every estimatedMonthlyCost is
\* a finite number: the energy cost times 300 plus the fixed charge.
C25_WindowFloor ==
  /\ WindowTaken =>
       /\ ~RatLess(daysInReadings(readings), Rat(1, 10))
       /\ daysInReadings(readings)
            = IF ShortWindow THEN Rat(1, 10) ELSE Rat(WindowMinutes, MinutesPerDay)
       /\ monthMultiplier(readings).den > 0
       /\ ShortWindow => monthMultiplier(readings) = RatOfInt(300)
  /\ ComparisonsReturned =>
       \A k \in 1..Len(Roster) :
         /\ ret.results[k].estimatedMonthlyCost.den > 0
         /\ ShortWindow =>
              ret.results[k].estimatedMonthlyCost
                = RatOfInt(300 * (ret.results[k].totalCost
                                  - Len(ret.results[k].breakdown) * Roster[k].fixedMonthlyCharge)
                           + Roster[k].fixedMonthlyCharge)

\* one reading was compared: the multiplier is 300
C25_Witness ==
  /\ ComparisonsReturned
  /\ Len(readings) = 1
  /\ readings[1].value = 130
  /\ monthMultiplier(readings) = RatOfInt(300)
  /\ ret.results[1].estimatedMonthlyCost = RatOfInt(300 * ret.results[1].totalCost)

\* two readings one hour apart were compared: the multiplier is 300
C25_WitnessHour ==
  /\ ComparisonsReturned
  /\ Len(readings) = 2
  /\ WindowMinutes = 60
  /\ monthMultiplier(readings) = RatOfInt(300)

\* ------------------------------------------------------------------------
\* C27
\* ------------------------------------------------------------------------
TimeParsed == helper.fn = "parseTime" /\ helper.called

\* the suffix of the written time, whatever its casing
WrittenAm == helper.written.suffix \in {<<"A", "M">>, <<"a", "m">>}
WrittenPm == helper.written.suffix \in {<<"P", "M">>, <<"p", "m">>, <<"P", "m">>}

\* what the claim calls invalid
TimeOutOfRange ==
  \/ helper.written.minutes > 59
  \/ helper.written.seconds > 59
  \/ helper.written.hours > 24
  \/ (WrittenAm \/ WrittenPm) /\ helper.written.hours \notin 1..12

\* the hour of the written time on the 24-hour clock
HourOn24 ==
  IF WrittenPm THEN (IF helper.written.hours = 12 THEN 12 ELSE helper.written.hours + 12)
  ELSE IF WrittenAm THEN (IF helper.written.hours = 12 THEN 0 ELSE helper.written.hours)
  ELSE helper.written.hours

\* C27: of a time written as H, H:MM or H:MM:SS with or without AM/PM,
\* parseTime returns no value exactly when minutes or seconds exceed 59, the
\* hour exceeds 24, or a suffix stands with an hour outside 1..12; otherwise
\* it returns the minutes and seconds as written and the hour on the
\* 24-hour clock: with PM h + 12 and 12 for 12, with AM 0 for 12 and h
\* otherwise, without a suffix the hour as written; a text of another form
\* has no value
C27_ParseTimeRangesAndClock ==
  /\ TimeParsed /\ helper.written.ok =>
       /\ ~helper.result.ok <=> TimeOutOfRange
       /\ helper.result.ok =>
            /\ helper.result.hours = HourOn24
            /\ helper.result.minutes = helper.written.minutes
            /\ helper.result.seconds = helper.written.seconds
  /\ TimeParsed /\ ~helper.written.ok => ~helper.result.ok

\* "12:30:59 AM" is parsed to 0:30:59
C27_Witness ==
  /\ TimeParsed
  /\ helper.timeRaw = <<"1", "2", ":", "3", "0", ":", "5", "9", " ", "A", "M">>
  /\ helper.result = [ok |-> TRUE, hours |-> 0, minutes |-> 30, seconds |-> 59]

\* "12pm" stays 12, "1 pm" becomes 13, "24" is returned as 24
C27_WitnessNoon ==
  /\ TimeParsed
  /\ helper.timeRaw = <<"1", "2", "p", "m">>
  /\ helper.result = [ok |-> TRUE, hours |-> 12, minutes |-> 0, seconds |-> 0]

C27_WitnessInvalid ==
  /\ TimeParsed
  /\ helper.timeRaw = <<"1", "3", ":", "0", "0", " ", "P", "M">>
  /\ ~helper.result.ok

\* ------------------------------------------------------------------------
\* C28
\* ------------------------------------------------------------------------
GasCostReturned == gasRet.kind = "gasCalculators" /\ gasRet.cost.kind = "cost"
GasBreakdownReturned ==
  gasRet.kind = "gasCalculators" /\ gasRet.breakdown.kind = "breakdown"

\* the therms of the gas readings of one calendar month
UsageOfMonth(ym) ==
  LET inMonth(r) == <<r.timestamp.year, r.timestamp.month>> = ym
      rs == SelectSeq(gasReadings, inMonth)
  IN  sumValues(rs, Len(rs))

\* min(usage, baselineTherms) x baselineRate
\*   + max(0, usage - baselineTherms) x overBaselineRate + fixedMonthlyCharge
TwoTierCost(usage, tariff) ==
  (IF usage <= tariff.baselineTherms THEN usage ELSE tariff.baselineTherms)
     * tariff.baselineRate
  + (IF usage >= tariff.baselineTherms THEN usage - tariff.baselineTherms ELSE 0)
     * tariff.overBaselineRate
  + tariff.fixedMonthlyCharge

\* C28: each month's cost in calculateGasMonthlyBreakdown is
\* min(usage, baselineTherms) x baselineRate + max(0, usage - baselineTherms)
\* x overBaselineRate + fixedMonthlyCharge, with the usage of that calendar
\* month; calculateGasCost on the same readings and tariff returns a
\* totalCost equal to the sum of those monthly costs, totalTherms equal to
\* the sum of the monthly usages, baselineTherms + overBaselineTherms equal
\* to totalTherms, and fixedCharges equal to the number of months times the
\* fixed monthly charge.
C28_GasCalculatorsAgree ==
  /\ GasBreakdownReturned =>
       LET b == gasRet.breakdown.result
           tariff == GasTariffs[gasRet.tariffIx]
       IN  /\ Len(b) = Cardinality(GasCalendarMonths)
           /\ \A ym \in GasCalendarMonths :
                \E k \in 1..Len(b) : b[k].usage = UsageOfMonth(ym)
           /\ \A k \in 1..Len(b) : b[k].cost = TwoTierCost(b[k].usage, tariff)
  /\ GasCostReturned =>
       LET c == gasRet.cost.result
           tariff == GasTariffs[gasRet.tariffIx]
       IN  /\ c.baselineTherms + c.overBaselineTherms = c.totalTherms
           /\ c.fixedCharges = Cardinality(GasCalendarMonths) * tariff.fixedMonthlyCharge
           /\ c.totalCost = c.baselineCost + c.overBaselineCost + c.fixedCharges
  /\ GasCostReturned /\ GasBreakdownReturned =>
       LET c == gasRet.cost.result
           b == gasRet.breakdown.result
       IN  /\ c.totalCost = sumCost(b, Len(b))
           /\ c.totalTherms = sumUsage(b, Len(b))
           /\ c.fixedCharges = Len(b) * GasTariffs[gasRet.tariffIx].fixedMonthlyCharge

\* both calculators have run on readings of two months, one under and one
\* over the baseline of 32 therms: 10 therms and 40 therms
C28_Witness ==
  /\ GasCostReturned
  /\ GasBreakdownReturned
  /\ gasRet.tariffIx = 1
  /\ Len(gasRet.breakdown.result) = 2
  /\ gasRet.breakdown.result[1].usage = 10
  /\ gasRet.breakdown.result[2].usage = 40
  /\ gasRet.cost.result.baselineTherms = 42
  /\ gasRet.cost.result.overBaselineTherms = 8
  /\ gasRet.cost.result.fixedCharges = 2 * 18680
  /\ gasRet.cost.result.totalCost = 42 * 2516 + 8 * 3014 + 2 * 18680

\* ------------------------------------------------------------------------
\* C26
\* ------------------------------------------------------------------------
ParseFinished == helper.fn = "parseFinish" /\ helper.called

\* the differences of consecutive timestamps of the normalized readings
IntervalDiffs ==
  [k \in 1..(Len(helper.result.readings) - 1) |->
     helper.result.readings[k + 1].timestamp - helper.result.readings[k].timestamp]

\* the element at index floor(n / 2), counted from 0, of the n differences
\* in ascending order: at most floor(n / 2) differences are below it and
\* more than floor(n / 2) are not above it
UpperMedian ==
  CHOOSE m \in {IntervalDiffs[k] : k \in 1..Len(IntervalDiffs)} :
    /\ Cardinality({k \in 1..Len(IntervalDiffs) : IntervalDiffs[k] < m})
         <= Len(IntervalDiffs) \div 2
    /\ Cardinality({k \in 1..Len(IntervalDiffs) : IntervalDiffs[k] <= m})
         > Len(IntervalDiffs) \div 2

\* x / unit rounded to the nearest whole number, a half rounded up
RoundedTo(x, unit) ==
  CHOOSE q \in 0..(x \div unit + 1) : 2 * unit * q - unit <= 2 * x /\ 2 * x < 2 * unit * q + unit

\* the median interval is one the parser expects
ExpectedInterval ==
  IF helper.which = "electricity" THEN RoundedTo(UpperMedian, 60) \in {15, 30, 60}
  ELSE RoundedTo(UpperMedian, 3600) \in {1, 24}

IntervalWarned ==
  \E k \in 1..Len(helper.result.warnings) : helper.result.warnings[k].kind = "interval"

\* C26 as stated: whenever the parse has succeeded with readings that have
\* a median difference, the interval warning is there exactly when the
\* rounded median is not an expected interval
C26_AsStated ==
  ParseFinished /\ Len(helper.st.readings) >= 2 =>
    (IntervalWarned <=> ~ExpectedInterval)

\* C26: the parse returns its readings whatever the intervals are; with three
\* or more normalized readings the interval warning is emitted exactly when
\* the median of the consecutive timestamp differences (of an even number of
\* differences the upper of the two middle ones), rounded to the nearest
\* minute, is not 15, 30 or 60, for gas rounded to the nearest hour, is not
\* 1 or 24; with fewer readings no interval warning is emitted
C26_IntervalWarning ==
  ParseFinished =>
    /\ helper.result.kind = "result"
    /\ helper.result.readings = helper.st.readings
    /\ Len(helper.result.readings) >= 3 => (IntervalWarned <=> ~ExpectedInterval)
    /\ Len(helper.result.readings) < 3 => ~IntervalWarned
    /\ Len(helper.result.warnings) = IF IntervalWarned THEN 1 ELSE 0

\* electricity readings 15, 60 and 60 minutes apart: the median is 60
\* minutes, no warning; and the readings are returned
C26_Witness ==
  /\ ParseFinished
  /\ helper.which = "electricity"
  /\ IntervalDiffs = <<900, 3600, 3600>>
  /\ helper.result.warnings = <<>>

\* gas readings a day, 90 minutes and 90 minutes apart: "~2 hour intervals"
C26_WitnessWarned ==
  /\ ParseFinished
  /\ helper.which = "gas"
  /\ IntervalDiffs = <<86400, 5400, 5400>>
  /\ helper.result.warnings = <<[kind |-> "interval", detected |-> 2]>>
  /\ Len(helper.result.readings) = 4

\* two electricity readings a day apart: no warning is emitted
C26_WitnessTwo ==
  /\ ParseFinished
  /\ helper.which = "electricity"
  /\ IntervalDiffs = <<86400>>
  /\ helper.result.warnings = <<>>

\* ------------------------------------------------------------------------
\* C23
\* ------------------------------------------------------------------------
CoverageComputed == helper.fn = "dataCoverage" /\ helper.called

\* C23: over fewer than two readings every statistic returns: the data
\* coverage is null for no reading and for one reading (and a value from two
\* readings on), compareTariffs returns the empty list for no reading and
\* one result per tariff with a finite estimate for one reading, and the
\* end of a parse with fewer than three normalized readings returns them
\* without an interval warning
C23_FewReadingsNoThrow ==
  /\ CoverageComputed => (helper.result.ok <=> Len(readings) >= 2)
  /\ ret.kind = "comparisons" /\ Len(readings) = 0 => ret.results = <<>>
  /\ ret.kind = "comparisons" /\ Len(readings) = 1 =>
       /\ Len(ret.results) = Len(Roster)
       /\ \A k \in 1..Len(Roster) :
            /\ ret.results[k].estimatedMonthlyCost.den > 0
            /\ ret.results[k].savingsVsCurrent.den > 0
            /\ ret.results[k].totalUsage = readings[1].value
  /\ ParseFinished /\ Len(helper.st.readings) < 3 =>
       /\ helper.result.kind = "result"
       /\ helper.result.readings = helper.st.readings
       /\ ~IntervalWarned

\* one reading: no coverage, and five finite estimates
C23_Witness ==
  /\ CoverageComputed
  /\ Len(readings) = 1
  /\ ~helper.result.ok
  /\ ret.kind = "comparisons"
  /\ Len(ret.results) = Len(Roster)

\* no reading: no coverage and no comparison
C23_WitnessEmpty ==
  /\ CoverageComputed
  /\ readings = <<>>
  /\ ~helper.result.ok
  /\ ret.kind = "comparisons"
  /\ ret.results = <<>>

\* two readings a day apart end a parse without a warning
C23_WitnessParse ==
  /\ ParseFinished
  /\ IntervalDiffs = <<86400>>
  /\ helper.result.warnings = <<>>

\* two readings ten days apart in January: a coverage of 10 days, 0 months
C23_WitnessCovered ==
  /\ CoverageComputed
  /\ Len(readings) = 2
  /\ helper.result.ok
  /\ helper.result.days = 10
  /\ helper.result.months = 0
  /\ helper.result.hasWinter
  /\ ~helper.result.hasSummer

\* ------------------------------------------------------------------------
\* C29
\* ------------------------------------------------------------------------
\* reader.onload has just run
JustLoaded == app.mounted /\ app.loaded.how = "onload"

\* what the try block comes to for each of the files, by engine
TriedLoads == [e \in Engines |-> [f \in 1..Len(AppFiles) |-> tryLoad(e, AppFiles[f])]]

\* what the try block comes to for the file that has just been loaded
LoadedTry == TriedLoads[engine][app.loaded.file]

LoadFailed == JustLoaded /\ LoadedTry.outcome.kind = "error"
LoadSucceeded == JustLoaded /\ LoadedTry.outcome.kind = "result"

\* the step is reader.onload of a file that was under way, and the file is
\* under way once less after it
LoadStep ==
  \E k \in 1..Len(app.inFlight) :
    /\ app.inFlight[k] = app'.loaded.file
    /\ app'.inFlight = removeAt(app.inFlight, k)

\* the errors of the upload: the two of the file name and the four fatal
\* errors of the parser
UploadFailures ==
  {"xml-not-supported", "unsupported-file-type", "empty", "no-header", "no-usage-column",
   "no-readings"}

\* C29: after reader.onload of a file that is no .csv or that the parser
\* throws on, readings and uploadWarnings are empty, uploadError is the
\* message of the error, isLoading is false, the parser was called at most
\* once (not at all for a file that is no .csv) and the file is no longer
\* under way: only handleFileUpload starts a read. handleFileUpload clears
\* uploadError and uploadWarnings; reader.onload of a file that parses sets
\* readings and uploadWarnings to the result and leaves uploadError as it is.
C29_FailedUpload ==
  /\ [](LoadFailed =>
          /\ readings = <<>>
          /\ app.uploadWarnings = <<>>
          /\ app.uploadError = LoadedTry.outcome.error
          /\ app.uploadError \in UploadFailures
          /\ ~app.isLoading
          /\ app.loaded.parserCalls
               = IF endsWith(toLowerCase(AppFiles[app.loaded.file].name), <<".", "c", "s", "v">>)
                 THEN 1 ELSE 0)
  /\ [](LoadSucceeded =>
          /\ readings = asReadings(LoadedTry.outcome.readings)
          /\ Len(readings) > 0
          /\ app.uploadWarnings = LoadedTry.outcome.warnings
          /\ ~app.isLoading
          /\ app.loaded.parserCalls = 1)
  /\ [][/\ app'.mounted /\ app'.loaded.how = "onload" => LoadStep
        /\ app'.mounted /\ app'.loaded.how = "onload"
             /\ TriedLoads[engine][app'.loaded.file].outcome.kind = "result"
             => app'.uploadError = app.uploadError
        /\ Len(app'.inFlight) > Len(app.inFlight) =>
             /\ app'.uploadError = NoError
             /\ app'.uploadWarnings = <<>>
             /\ app'.isLoading
             /\ app'.loaded = NoLoad
             /\ readings' = readings]_vars

\* totals.csv has failed after july.csv had been loaded: the readings are
\* gone, the message is that of the parser
C29_Witness ==
  /\ LoadFailed
  /\ AppFiles[app.loaded.file].name = <<"t", "o", "t", "a", "l", "s", ".", "c", "s", "v">>
  /\ app.uploadError = "no-readings"
  /\ readings = <<>>
  /\ app.inFlight = <<>>
  /\ Len(app.comparisons) = Len(Roster)

\* july.xml has failed without a call of the parser
C29_WitnessXml ==
  /\ LoadFailed
  /\ AppFiles[app.loaded.file].name = <<"j", "u", "l", "y", ".", "x", "m", "l">>
  /\ app.uploadError = "xml-not-supported"
  /\ app.loaded.parserCalls = 0

\* july.csv has been loaded: two readings, a warning of one skipped row, no
\* error
C29_WitnessLoaded ==
  /\ LoadSucceeded
  /\ AppFiles[app.loaded.file].name = <<"j", "u", "l", "y", ".", "c", "s", "v">>
  /\ readings = << [timestamp |-> Stamp(2025, 6, 10, 15), value |-> 130],
                   [timestamp |-> Stamp(2025, 6, 11, 15), value |-> 270] >>
  /\ app.uploadWarnings = <<[kind |-> "skipped", count |-> 1]>>
  /\ app.uploadError = NoError

\* each of the other fatal errors of the parser has been met
C29_WitnessEmpty == LoadFailed /\ app.uploadError = "empty"
C29_WitnessNoHeader == LoadFailed /\ app.uploadError = "no-header"
C29_WitnessNoUsage == LoadFailed /\ app.uploadError = "no-usage-column"

\* ------------------------------------------------------------------------
\* C30
\* ------------------------------------------------------------------------
\* compareTariffs of the current inputs, computed from scratch
FreshComparisons ==
  compareTariffs(build, readingsWithSimulation(readings, app.simulatedLoads),
                 app.currentTariff, Roster)

\* C30 as stated: after every handler and its effects the comparisons held
\* are compareTariffs of the readings with the current overlay, the current
\* tariff id and the roster, and they are empty whenever there are no
\* readings
C30_AsStated ==
  app.mounted =>
    /\ app.comparisons = FreshComparisons
    /\ readings = <<>> => app.comparisons = <<>>

\* what holds of the code: while there are readings the comparisons are
\* those of the current inputs
C30_FreshWhileReadings ==
  app.mounted /\ Len(readings) > 0 => app.comparisons = FreshComparisons

\* after the reset button no reading is left and the comparisons of the
\* readings before it are still held
C30_StaleAfterReset ==
  /\ app.mounted
  /\ readings = <<>>
  /\ app.loaded = NoLoad
  /\ app.uploadError = NoError
  /\ Len(app.comparisons) = Len(Roster)
  /\ app.comparisons[1].totalUsage = 400

====
